---- MODULE Spec2Model ----
(***************************************************************************)
(* Tool invocation pipeline of the Shopify MCP server.                     *)
(*                                                                         *)
(* A JavaScript string is a sequence of atoms: an atom is one character    *)
(* where the code looks at characters ("g","i","d",":","/" and digits),    *)
(* and a whole word or literal chunk elsewhere ("shopify/", "variant").    *)
(* Concatenation and template literals are \o.  null / undefined / an      *)
(* absent optional value is None, a present one is Some(v); an optional    *)
(* input field the caller omitted is a key absent from the input record.   *)
(***************************************************************************)
EXTENDS Integers, Sequences, FiniteSets, TLC

VARIABLES
    entry,          \* which program runs: "index", "index-updated", or "module" (a tool module used directly)
    unit,           \* entry = "module": the tool module under use; "none" otherwise
    pc,             \* position in the entry point's start-up script (1-based index of the next statement)
    centralClient,  \* utils/graphql-client.ts: let shopifyClient (None until initializeGraphQLClient)
    toolClient,     \* per legacy tool module: its module-level client handle (None until initialize)
    registered,     \* tool names registered with the MCP server (server.tool)
    connected,      \* server.connect(transport) has been called
    phase,          \* the invocation: "idle", "awaiting" (suspended on client.request), "done"
    via,            \* "dispatcher" (MCP handler) or "direct" (execute called on the module)
    tool,           \* tool implementation being executed
    input,          \* the input record execute received (raw arguments when the dispatcher rejected them)
    hadClient,      \* whether the client the tool uses was initialised when execute started
    sent,           \* sequence of requests issued by this invocation: [client, variables]
    response,       \* what the transport answered (None while none)
    payloadRead,    \* the continuation dereferenced or returned the mutation/query payload
    caught,         \* the error value the tool's catch block caught (None if none)
    outcome,        \* what left execute: [kind |-> "result", value] or [kind |-> "error", message]; None while running
    served,         \* what left the dispatcher's handler (validation failure, result or error); None otherwise
    localClient,    \* the entry point's own const shopifyClient (None until constructed)
    fn              \* the arguments of the tools/call being served; in the specifications beside
                    \* the server, the function arguments and the concurrent calls

vars == <<entry, unit, pc, centralClient, toolClient, registered, connected, phase, via,
          tool, input, hadClient, sent, response, payloadRead, caught, outcome, served, localClient, fn>>

-----------------------------------------------------------------------------
(* Values *)

None == <<>>
Some(x) == <<x>>
IsSome(o) == Len(o) = 1

StartsWith(s, p) == Len(s) >= Len(p) /\ SubSeq(s, 1, Len(p)) = p
Includes(s, atom) == \E i \in 1..Len(s) : s[i] = atom

\* JavaScript truthiness of a string-typed optional input field
Has(rec, f) == f \in DOMAIN rec
Truthy(rec, f) == Has(rec, f) /\ rec[f] # <<>>

\* 'gid://'
GidScheme == <<"g", "i", "d", ":", "/", "/">>

\* Error values: an Error object carries a message; anything else thrown is a bare value
Err(msg) == [isError |-> TRUE, message |-> msg]
Thrown(text) == [isError |-> FALSE, value |-> text]

\* TypeError raised by reading a property of null / undefined
NullDeref(prop) == Err(<<"Cannot read properties of null (reading '", prop, "')">>)
UndefinedDeref(prop) == Err(<<"Cannot read properties of undefined (reading '", prop, "')">>)

-----------------------------------------------------------------------------
(* utils/formatters.ts *)

formatGidPrefixAlways(type, id) == GidScheme \o <<"shopify/", type, "/">> \o id

formatGid(type, id) ==
    IF StartsWith(id, GidScheme) THEN id
    ELSE GidScheme \o <<"shopify/", type, "/">> \o id

\* the ternary the legacy tools inline instead of calling formatGid
inlineGid(type, id) ==
    IF StartsWith(id, GidScheme) THEN id
    ELSE GidScheme \o <<"shopify/", type, "/">> \o id

-----------------------------------------------------------------------------
(* utils/error-handler.ts *)

RECURSIVE JoinWith(_, _)
JoinWith(strs, sep) ==
    IF Len(strs) = 0 THEN <<>>
    ELSE IF Len(strs) = 1 THEN strs[1]
    ELSE strs[1] \o sep \o JoinWith(Tail(strs), sep)

Failed(operation, text) == <<"Failed to ", operation, ": ">> \o text

\* e.field ? `${e.field}: ${e.message}` : e.message
renderUserError(e) ==
    IF IsSome(e.field) /\ e.field[1] # <<>>
    THEN e.field[1] \o <<": ">> \o e.message
    ELSE e.message

handleGraphQLErrorsNeverThrows(userErrors, operation) == None

\* None when it returns normally, Some(error) when it throws
handleGraphQLErrors(userErrors, operation) ==
    IF Len(userErrors) > 0
    THEN Some(Err(Failed(operation,
                 JoinWith([i \in 1..Len(userErrors) |-> renderUserError(userErrors[i])], <<", ">>))))
    ELSE None

\* error instanceof Error ? error.message : String(error)
errorText(error) == IF error.isError THEN error.message ELSE error.value

handleExecutionErrorRethrows(error, operation) ==
    IF error.isError THEN error ELSE Err(error.value)

\* always throws; the value is the Error it throws
handleExecutionError(error, operation) == Err(Failed(operation, errorText(error)))

-----------------------------------------------------------------------------
(* utils/graphql-client.ts and the client construction of the entry points *)

NotInitializedMessage == <<"GraphQL client not initialized. Call initializeGraphQLClient first.">>

NewClient(instance, domain, version, accessToken) ==
    [instance |-> instance,
     url      |-> <<"https://", domain, "/admin/api/", version, "/graphql.json">>,
     token    |-> accessToken]

initializeGraphQLClient(domain, accessToken) ==
    Some(NewClient("utils/graphql-client", domain, "2024-07", accessToken))

getGraphQLClientInverted(client) ==
    IF client # None THEN [thrown |-> Some(Err(NotInitializedMessage)), client |-> None]
    ELSE [thrown |-> None, client |-> client]

\* [thrown, client]: throws when the module-level client is still null
getGraphQLClient(client) ==
    IF client = None THEN [thrown |-> Some(Err(NotInitializedMessage)), client |-> None]
    ELSE [thrown |-> None, client |-> client]

-----------------------------------------------------------------------------
(* Inputs the callers supply *)

Gid(type, token) == GidScheme \o <<"shopify/", type, "/">> \o token

\* identifiers a caller may hand in: empty, bare, already qualified, qualified with another resource type
IdSamples(type) == {<<>>, <<"1">>, Gid(type, <<"1">>), Gid("Order", <<"7">>)}


EmptyRecord == [k \in {} |-> None]
\* the set of records r @@ s
Cross(A, B) == {a @@ b : a \in A, b \in B}
\* an optional field: omitted, or present with one of the values
Optional(f, S) == {EmptyRecord} \cup {(f :> v) : v \in S}
Required(f, S) == {(f :> v) : v \in S}
\* rec without the keys that are not in keys
Restrict(rec, keys) == [k \in (DOMAIN rec) \cap keys |-> rec[k]]
Without(rec, keys) == [k \in (DOMAIN rec) \ keys |-> rec[k]]

\* the value of a key an object literal sets from an input field that may be undefined:
\* None is undefined, Some(v) a value
Field(rec, f) == IF Has(rec, f) THEN Some(rec[f]) ELSE None

-----------------------------------------------------------------------------
(* Inventory tools *)

\* adjust-inventory forwarding the size of the delta without its sign
inventoryAdjustInventoryVariablesUnsigned(in) ==
    [input |-> [inventoryItemId |-> formatGid("InventoryItem", in.inventoryItemId),
                locationId      |-> formatGid("Location", in.locationId),
                availableDelta  |-> IF in.availableDelta < 0 THEN 0 - in.availableDelta
                                    ELSE in.availableDelta,
                reason          |-> Field(in, "reason")]]

\* tools/inventory/adjust-inventory.ts
inventoryAdjustInventoryVariables(in) ==
    [input |-> [inventoryItemId |-> formatGid("InventoryItem", in.inventoryItemId),
                locationId      |-> formatGid("Location", in.locationId),
                availableDelta  |-> in.availableDelta,
                reason          |-> Field(in, "reason")]]

\* dist/tools/adjustInventory.js (tools/adjustInventory.ts compiled)
adjustInventoryVariables(in) ==
    [input |-> [inventoryItemId |-> inlineGid("InventoryItem", in.inventoryItemId),
                availableDelta  |-> in.availableDelta,
                locationId      |-> inlineGid("Location", in.locationId),
                reason          |-> Field(in, "reason")]]

\* dist/tools/connectInventoryToLocation.js
connectInventoryToLocationVariables(in) ==
    [inventoryItemId |-> inlineGid("InventoryItem", in.inventoryItemId),
     locationId      |-> inlineGid("Location", in.locationId),
     available       |-> in.available,
     reason          |-> Field(in, "reason")]

\* disconnectInventoryFromLocation.js
disconnectInventoryFromLocationVariables(in) ==
    [inventoryItemId |-> inlineGid("InventoryItem", in.inventoryItemId),
     locationId      |-> inlineGid("Location", in.locationId),
     reason          |-> Field(in, "reason")]

\* tools/setInventoryTracking.ts
setInventoryTrackingVariables(in) ==
    [input |-> [id      |-> inlineGid("InventoryItem", in.inventoryItemId),
                tracked |-> in.tracked]]

\* a search-query string, or undefined when the filter is empty:  queryFilter || undefined
OrUndefined(str) == IF str # <<>> THEN Some(str) ELSE None

\* tools/getInventoryItems.ts
getInventoryItemsVariables(in) ==
    LET q0 == IF Truthy(in, "query") THEN in.query ELSE <<>>
        q1 == IF Truthy(in, "productId")
              THEN q0 \o (IF q0 # <<>> THEN <<" AND ", "product_id:">> ELSE <<"product_id:">>)
                      \o inlineGid("Product", in.productId)
              ELSE q0
        q2 == IF Truthy(in, "variantId")
              THEN q1 \o (IF q1 # <<>> THEN <<" AND ", "variant_id:">> ELSE <<"variant_id:">>)
                      \o inlineGid("ProductVariant", in.variantId)
              ELSE q1
    IN [first |-> in.limit, query |-> OrUndefined(q2)]

\* tools/getInventoryLevels.ts
getInventoryLevelsVariables(in) ==
    LET queryFilter == IF Truthy(in, "locationId") THEN <<"location_id:">> \o in.locationId ELSE <<>>
    IN [first |-> in.limit, query |-> OrUndefined(queryFilter)]

\* tools/inventory/get-inventory-levels.ts
inventoryGetInventoryLevelsVariables(in) ==
    LET query == IF Truthy(in, "locationId")
                 THEN <<"location_id:">> \o formatGid("Location", in.locationId)
                 ELSE IF Truthy(in, "productId")
                 THEN <<"product_id:">> \o formatGid("Product", in.productId)
                 ELSE <<>>
    IN [first |-> in.limit, query |-> OrUndefined(query)]

\* the filter built only from a truthy active
getLocationsVariablesTruthy(in) ==
    [first |-> in.limit,
     query |-> IF Has(in, "active") /\ in.active THEN Some(<<"is_active:", "true">>) ELSE None]

\* tools/getLocations.ts
getLocationsVariables(in) ==
    LET queryFilter == IF Has(in, "active")
                       THEN <<"is_active:", IF in.active THEN "true" ELSE "false">>
                       ELSE <<>>
    IN [first |-> in.limit, query |-> OrUndefined(queryFilter)]

-----------------------------------------------------------------------------
(* Order tools *)

Map(s, Op(_)) == [i \in 1..Len(s) |-> Op(s[i])]

\* line item lists: bare and qualified variant ids, an empty variant id, a zero quantity, a priced item, no item
LineItemLists ==
    { << [variantId |-> <<"9">>, quantity |-> 2] >>,
      << [variantId |-> Gid("ProductVariant", <<"9">>), quantity |-> 1],
         [variantId |-> <<"1">>, quantity |-> 3] >>,
      << [variantId |-> <<>>, quantity |-> 2] >>,
      << [variantId |-> <<"9">>, quantity |-> 0] >>,
      << [variantId |-> <<"9">>, quantity |-> 1, price |-> <<"4.50">>] >>,
      << >> }

\* tools/createOrder.ts
createOrderVariables(in) ==
    LET spread == Without(in, {"note"})
        noted == IF Has(in, "note") THEN ("privateNote" :> in.note) @@ spread ELSE in
        customer == IF Truthy(in, "customerId")
                    THEN [noted EXCEPT !.customerId = inlineGid("Customer", in.customerId)]
                    ELSE noted
        item(it) == [it EXCEPT !.variantId = inlineGid("ProductVariant", it.variantId)]
    IN [input |-> [customer EXCEPT !.lineItems = Map(in.lineItems, item)]]

\* line items spread into the request with every key they came with
formatOrderInputSpreadsItems(in) ==
    LET item(it) == [variantId        |-> formatGid("ProductVariant", it.variantId),
                     quantity         |-> it.quantity,
                     customAttributes |-> Field(it, "customAttributes")] @@ it
        customer == IF Truthy(in, "customerId")
                    THEN ("customerId" :> formatGid("Customer", in.customerId)) ELSE EmptyRecord
        note == IF Truthy(in, "note") THEN ("note" :> in.note) ELSE EmptyRecord
        receipt == IF Has(in, "sendReceipt") THEN ("sendReceipt" :> in.sendReceipt) ELSE EmptyRecord
    IN ("lineItems" :> Map(in.lineItems, item)) @@ customer @@ note @@ receipt

\* tools/orders/create-order.ts
formatOrderInput(in) ==
    LET item(it) == [variantId        |-> formatGid("ProductVariant", it.variantId),
                     quantity         |-> it.quantity,
                     customAttributes |-> Field(it, "customAttributes")]
        lineItems == ("lineItems" :> Map(in.lineItems, item))
        customer == IF Truthy(in, "customerId")
                    THEN ("customerId" :> formatGid("Customer", in.customerId)) ELSE EmptyRecord
        note == IF Truthy(in, "note") THEN ("note" :> in.note) ELSE EmptyRecord
        receipt == IF Has(in, "sendReceipt") THEN ("sendReceipt" :> in.sendReceipt) ELSE EmptyRecord
    IN lineItems @@ customer @@ note @@ receipt

\* tools/createFulfillment.ts
createFulfillmentVariables(in) ==
    LET base == [orderId |-> in.orderId, notifyCustomer |-> in.notifyCustomer]
        items == IF Has(in, "lineItems") /\ Len(in.lineItems) > 0
                 THEN ("lineItems" :> in.lineItems) ELSE EmptyRecord
        location == IF Truthy(in, "locationId") THEN ("locationId" :> in.locationId) ELSE EmptyRecord
    IN [fulfillment |-> base @@ items @@ location]

-----------------------------------------------------------------------------
(* Customer tools *)

\* customers/create-customer.ts
customersCreateCustomerVariables(in) ==
    LET email == ("email" :> in.email)
        firstName == IF Truthy(in, "firstName") THEN ("firstName" :> in.firstName) ELSE EmptyRecord
        marketing == IF Has(in, "acceptsMarketing")
                     THEN ("acceptsMarketing" :> in.acceptsMarketing) ELSE EmptyRecord
    IN [input |-> email @@ firstName @@ marketing]

\* tools/updateCustomer.ts
updateCustomerVariables(in) ==
    LET customerGid == GidScheme \o <<"shopify/", "Customer", "/">> \o in.id
    IN [input |-> ("id" :> customerGid) @@ Without(in, {"id"})]

\* tools/customers/get-customers.ts
customersGetCustomersVariables(in) ==
    [first |-> in.limit,
     query |-> IF Truthy(in, "searchQuery") THEN Some(in.searchQuery) ELSE None]

-----------------------------------------------------------------------------
(* Product, collection and metafield tools *)

\* input.xs?.map(f): undefined when the list is absent
MapOptional(in, f, Op(_)) == IF Has(in, f) THEN Some(Map(in[f], Op)) ELSE None

productInputBase(in) ==
    [title |-> in.title, status |-> in.status]
        @@ (IF Truthy(in, "vendor") THEN ("vendor" :> in.vendor) ELSE EmptyRecord)

\* createProduct.ts
createProductVariables(in) ==
    LET variant(v) ==
            [price |-> v.price,
             inventoryQuantities |->
                 IF Has(v, "inventoryQuantity")
                 THEN Some([availableQuantity |-> v.inventoryQuantity,
                            locationId |-> GidScheme \o <<"shopify/", "Location", "/", "1">>])
                 ELSE None]
        collection(id) == inlineGid("Collection", id)
    IN [input |-> ("variants" :> MapOptional(in, "variants", variant))
                  @@ ("collectionsToJoin" :> MapOptional(in, "collectionsToJoin", collection))
                  @@ ("images" :> None) @@ ("metafields" :> None)
                  @@ productInputBase(in)]

\* products/create-product.ts
formatProductInput(in) ==
    LET variant(v) ==
            [price |-> v.price,
             inventoryQuantities |->
                 IF Has(v, "inventoryQuantity")
                 THEN Some([availableQuantity |-> v.inventoryQuantity,
                            locationId |-> formatGid("Location", <<"1">>)])
                 ELSE None]
        collection(id) == formatGid("Collection", id)
    IN ("variants" :> MapOptional(in, "variants", variant))
       @@ ("collectionsToJoin" :> MapOptional(in, "collectionsToJoin", collection))
       @@ ("images" :> None) @@ ("metafields" :> None)
       @@ productInputBase(in)

\* tools/products/get-products.ts
productsGetProductsVariables(in) ==
    [first |-> in.limit,
     query |-> IF Truthy(in, "searchTitle") THEN Some(<<"title:*">> \o in.searchTitle \o <<"*">>)
               ELSE None]

\* tools/createCollection.ts
createCollectionVariables(in) ==
    [input |-> [title           |-> in.title,
                descriptionHtml |-> Field(in, "descriptionHtml"),
                handle          |-> Field(in, "handle"),
                seo             |-> Field(in, "seo"),
                image           |-> Field(in, "image"),
                sortOrder       |-> Field(in, "sortOrder"),
                templateSuffix  |-> Field(in, "templateSuffix"),
                metafields      |-> Field(in, "metafields"),
                ruleSet         |-> Field(in, "ruleSet")]]

\* the createCollection.ts that keeps its handle in shopifyClient
createCollectionShopifyClientVariables(in) ==
    LET product(id) == inlineGid("Product", id)
        handle == IF Truthy(in, "handle") THEN ("handle" :> in.handle) ELSE EmptyRecord
        products == IF Has(in, "productsToAdd") /\ Len(in.productsToAdd) > 0
                    THEN ("productsToAdd" :> Map(in.productsToAdd, product)) ELSE EmptyRecord
        ruleSet == IF Has(in, "ruleSet") THEN ("ruleSet" :> in.ruleSet) ELSE EmptyRecord
    IN [input |-> ("title" :> in.title) @@ handle @@ ruleSet @@ products]

\* createMetafield.js
createMetafieldVariables(in) ==
    [input |-> [ownerId     |-> in.ownerId,
                namespace   |-> in.namespace,
                key         |-> in.key,
                value       |-> in.value,
                type        |-> in.type,
                description |-> Field(in, "description")]]

-----------------------------------------------------------------------------
(* What the Shopify API answers *)

\* a connection field: its edges wrap the nodes; a nullable object or connection is None when null
Conn(nodes) == Some([edges |-> [i \in 1..Len(nodes) |-> [node |-> nodes[i]]]])

\* the nodes in the opposite order
mapEdgesToNodesReversed(edges) == [i \in 1..Len(edges) |-> edges[Len(edges) + 1 - i].node]

\* formatters.ts: edges.map(edge => edge.node)
mapEdgesToNodes(edges) == [i \in 1..Len(edges) |-> edges[i].node]

\* how a step of the code between the await and the return ends
Throws(e) == [thrown |-> Some(e), value |-> None]
Returns(v) == [thrown |-> None, value |-> Some(v)]

LocationNode == [id |-> Gid("Location", <<"2">>), name |-> <<"Main">>, isActive |-> TRUE]

\* inventory levels: one with its item and location, one where both are null
LevelNodes ==
    LET full == [id |-> Gid("InventoryLevel", <<"8">>), available |-> 5, deactivated |-> FALSE,
                 quantities |-> << [name |-> "available", quantity |-> 5],
                                   [name |-> "on_hand", quantity |-> 6] >>,
                 item |-> Some([id |-> Gid("InventoryItem", <<"1">>), sku |-> <<"A">>,
                                tracked |-> TRUE, variant |-> None]),
                 location |-> Some(LocationNode)]
    IN {full, [full EXCEPT !.item = None, !.location = None]}

\* level.quantities.reduce((acc, q) => { acc[q.name] = q.quantity; return acc }, {})
RECURSIVE reduceQuantities(_)
reduceQuantities(quantities) ==
    IF Len(quantities) = 0 THEN EmptyRecord
    ELSE LET q == quantities[Len(quantities)]
         IN (q.name :> q.quantity) @@ reduceQuantities(SubSeq(quantities, 1, Len(quantities) - 1))

\* x ? { ...fields of x } : null
OrNull(o, Op(_)) == IF o = None THEN None ELSE Some(Op(o[1]))

\* tools/inventory/adjust-inventory.ts: the statements after the userErrors check
inventoryAdjustInventoryResult(in, payload) ==
    IF payload = None THEN Throws(NullDeref("quantities"))
    ELSE LET level == payload[1] IN
         IF level.item = None THEN Throws(NullDeref("id"))
         ELSE IF level.location = None THEN Throws(NullDeref("id"))
         ELSE Returns([inventoryLevel |->
                 ("id" :> level.id) @@ reduceQuantities(level.quantities)
                 @@ ("item" :> [id |-> level.item[1].id, sku |-> level.item[1].sku,
                                tracked |-> level.item[1].tracked])
                 @@ ("location" :> [id |-> level.location[1].id, name |-> level.location[1].name])])

levelItem(item) == [id |-> item.id, tracked |-> item.tracked, variant |-> item.variant]
levelLocation(location) == [id |-> location.id, name |-> location.name, isActive |-> location.isActive]

\* dist/tools/adjustInventory.js
adjustInventoryResult(in, payload) ==
    IF payload = None THEN Throws(NullDeref("id"))
    ELSE LET inventoryLevel == payload[1] IN
         Returns([inventoryLevel |->
                    [id |-> inventoryLevel.id, available |-> inventoryLevel.available,
                     item |-> OrNull(inventoryLevel.item, levelItem),
                     location |-> OrNull(inventoryLevel.location, levelLocation)]])


\* disconnectInventoryFromLocation.js
disconnectInventoryFromLocationResult(in, payload) ==
    IF payload = None THEN Throws(NullDeref("id"))
    ELSE LET inventoryLevel == payload[1] IN
         Returns([inventoryLevel |->
                    [id |-> inventoryLevel.id, deactivated |-> inventoryLevel.deactivated,
                     item |-> OrNull(inventoryLevel.item, levelItem),
                     location |-> OrNull(inventoryLevel.location, levelLocation)]])

\* inventory items: one with its levels, one whose inventoryLevels is null
InventoryItemNodes ==
    LET full == [id |-> Gid("InventoryItem", <<"1">>), tracked |-> TRUE, sku |-> <<"A">>,
                 variant |-> None,
                 inventoryLevels |-> Conn(<<CHOOSE l \in LevelNodes : l.item # None>>)]
    IN {full, [full EXCEPT !.inventoryLevels = None]}

\* one inventory item with its levels flattened; throws when the item carries no inventoryLevels
formatInventoryItem(item) ==
    IF item.inventoryLevels = None THEN Throws(NullDeref("edges"))
    ELSE Returns([id |-> item.id, tracked |-> item.tracked, sku |-> item.sku, variant |-> item.variant,
                  inventoryLevels |-> Map(mapEdgesToNodes(item.inventoryLevels[1].edges),
                                         LAMBDA level :
                                             [id |-> level.id, available |-> level.available,
                                              location |-> OrNull(level.location, levelLocation)])])

\* tools/setInventoryTracking.ts
setInventoryTrackingResult(in, payload) ==
    IF payload = None THEN Throws(NullDeref("inventoryLevels"))
    ELSE LET r == formatInventoryItem(payload[1]) IN
         IF r.thrown # None THEN r
         ELSE Returns([inventoryItem |-> [id |-> r.value[1].id, tracked |-> r.value[1].tracked,
                                          inventoryLevels |-> r.value[1].inventoryLevels,
                                          variant |-> r.value[1].variant]])

\* xs.map(f) where f may throw, given how f ends on each element: the first element that
\* throws ends the map
MapThrowing(rs) ==
    LET bad == {i \in 1..Len(rs) : rs[i].thrown # None}
    IN IF bad # {}
       THEN rs[CHOOSE i \in bad : \A j \in bad : i <= j]
       ELSE Returns([i \in 1..Len(rs) |-> rs[i].value[1]])

\* the nodes of the root connection of a query answer
Nodes(payload) == mapEdgesToNodes(payload[1].edges)

\* tools/getInventoryItems.ts
getInventoryItemsResult(in, payload) ==
    LET r == MapThrowing(Map(Nodes(payload), formatInventoryItem))
    IN IF r.thrown # None THEN r ELSE Returns([inventoryItems |-> r.value[1]])

\* tools/getInventoryLevels.ts
getInventoryLevelsResult(in, payload) ==
    Returns([inventoryLevels |-> Map(Nodes(payload), LAMBDA level :
        [id |-> level.id, available |-> level.available,
         item |-> OrNull(level.item, levelItem),
         location |-> OrNull(level.location, levelLocation)])])

formatLevel(level) ==
    IF level.item = None THEN Throws(NullDeref("id"))
    ELSE IF level.location = None THEN Throws(NullDeref("id"))
    ELSE Returns(("id" :> level.id) @@ reduceQuantities(level.quantities)
                 @@ ("item" :> [id |-> level.item[1].id, sku |-> level.item[1].sku,
                                tracked |-> level.item[1].tracked, variant |-> level.item[1].variant])
                 @@ ("location" :> [id |-> level.location[1].id, name |-> level.location[1].name]))

\* tools/inventory/get-inventory-levels.ts
inventoryGetInventoryLevelsResult(in, payload) ==
    LET r == MapThrowing(Map(Nodes(payload), formatLevel))
    IN IF r.thrown # None THEN r ELSE Returns([inventoryLevels |-> r.value[1]])

\* tools/getLocations.ts
getLocationsResult(in, payload) ==
    Returns([locations |-> Map(Nodes(payload), levelLocation)])

-----------------------------------------------------------------------------
(* Answers to the order, fulfillment and customer tools *)

MetafieldNode == [id |-> Gid("Metafield", <<"6">>), namespace |-> <<"custom">>, key |-> <<"color">>]

\* orders: one with its metafields, one whose metafields is null
OrderNodes ==
    LET full == [id |-> Gid("Order", <<"7">>), name |-> <<"#1001">>, privateNote |-> <<"gift">>,
                 note |-> <<"gift">>, customer |-> None,
                 lineItems |-> Conn(<<[id |-> Gid("LineItem", <<"4">>), title |-> <<"Hat">>,
                                       quantity |-> 2, variant |-> None]>>),
                 metafields |-> Conn(<<MetafieldNode>>)]
    IN {full, [full EXCEPT !.metafields = None]}

orderLineItem(lineItem) ==
    [id |-> lineItem.id, title |-> lineItem.title, quantity |-> lineItem.quantity,
     variant |-> lineItem.variant]

\* x.metafields?.edges.map(edge => edge.node) || []
metafieldsOrEmpty(node) ==
    IF node.metafields = None THEN <<>> ELSE mapEdgesToNodes(node.metafields[1].edges)

\* tools/createOrder.ts
createOrderResult(in, payload) ==
    IF payload = None THEN Throws(NullDeref("lineItems"))
    ELSE LET order == payload[1] IN
         IF order.lineItems = None THEN Throws(NullDeref("edges"))
         ELSE Returns([order |-> [id |-> order.id, name |-> order.name, note |-> order.privateNote,
                                  customer |-> order.customer,
                                  lineItems |-> Map(mapEdgesToNodes(order.lineItems[1].edges), orderLineItem),
                                  metafields |-> metafieldsOrEmpty(order)]])

\* tools/orders/create-order.ts
formatOrderResponse(payload) ==
    IF payload = None THEN Throws(NullDeref("lineItems"))
    ELSE LET order == payload[1] IN
         IF order.lineItems = None THEN Throws(NullDeref("edges"))
         ELSE IF order.metafields = None THEN Throws(NullDeref("edges"))
         ELSE Returns([order |-> [id |-> order.id, name |-> order.name, note |-> order.note,
                                  customer |-> order.customer,
                                  lineItems |-> Map(mapEdgesToNodes(order.lineItems[1].edges), orderLineItem),
                                  metafields |-> mapEdgesToNodes(order.metafields[1].edges)]])

\* tools/createFulfillment.ts
createFulfillmentResult(in, payload) ==
    IF payload = None THEN Throws(NullDeref("id"))
    ELSE Returns([fulfillment |-> [id |-> payload[1].id, status |-> payload[1].status]])

\* customers: one with addresses and metafields, one where both connections are null
CustomerNodes ==
    LET full == [id |-> Gid("Customer", <<"5">>), email |-> <<"ann", "@", "example.com">>,
                 firstName |-> <<"Ann">>,
                 addresses |-> Conn(<<[id |-> Gid("MailingAddress", <<"1">>)]>>),
                 metafields |-> Conn(<<MetafieldNode>>)]
    IN {full, [full EXCEPT !.addresses = None, !.metafields = None]}

\* customers/create-customer.ts
customersCreateCustomerResult(in, payload) ==
    IF payload = None THEN Throws(NullDeref("id"))
    ELSE LET customer == payload[1] IN
         Returns([customer |-> [id |-> customer.id, email |-> customer.email,
                                firstName |-> customer.firstName,
                                addresses |-> IF customer.addresses = None THEN <<>>
                                              ELSE mapEdgesToNodes(customer.addresses[1].edges),
                                metafields |-> metafieldsOrEmpty(customer)]])

\* tools/updateCustomer.ts
updateCustomerResult(in, payload) ==
    IF payload = None THEN Throws(NullDeref("metafields"))
    ELSE LET customer == payload[1] IN
         Returns([customer |-> [id |-> customer.id, firstName |-> customer.firstName,
                                email |-> customer.email, metafields |-> metafieldsOrEmpty(customer)]])

\* tools/customers/get-customers.ts
customersGetCustomersResult(in, payload) ==
    Returns([customers |-> Map(Nodes(payload), LAMBDA customer :
        [id |-> customer.id, email |-> customer.email, firstName |-> customer.firstName])])

-----------------------------------------------------------------------------
(* Answers to the product, collection and metafield tools *)

\* products: one with every connection, one without images whose metafields is null
ProductNodes ==
    LET full == [id |-> Gid("Product", <<"1">>), title |-> <<"Hat">>, status |-> "ACTIVE",
                 variants |-> Conn(<<[id |-> Gid("ProductVariant", <<"9">>), title |-> <<"Default">>,
                                      price |-> <<"4.50">>]>>),
                 images |-> Conn(<<[id |-> Gid("ProductImage", <<"2">>),
                                    url |-> <<"https://cdn/hat.png">>]>>),
                 metafields |-> Conn(<<MetafieldNode>>),
                 collections |-> Conn(<<[id |-> Gid("Collection", <<"3">>), title |-> <<"Sale">>]>>)]
    IN {full, [full EXCEPT !.images = Conn(<<>>), !.metafields = None]}

\* variants, images and metafields of a product flattened; each connection is dereferenced unguarded
flattenProduct(product) ==
    IF product.variants = None THEN Throws(NullDeref("edges"))
    ELSE IF product.images = None THEN Throws(NullDeref("edges"))
    ELSE IF product.metafields = None THEN Throws(NullDeref("edges"))
    ELSE Returns([id |-> product.id, title |-> product.title, status |-> product.status,
                  variants |-> Map(mapEdgesToNodes(product.variants[1].edges), LAMBDA v : [id |-> v.id, title |-> v.title, price |-> v.price]),
                  images |-> Map(mapEdgesToNodes(product.images[1].edges), LAMBDA img : [id |-> img.id]),
                  metafields |-> mapEdgesToNodes(product.metafields[1].edges)])

\* createProduct.ts
createProductResult(in, payload) ==
    IF payload = None THEN Throws(NullDeref("variants"))
    ELSE LET r == flattenProduct(payload[1])
         IN IF r.thrown # None THEN r ELSE Returns([product |-> r.value[1]])

\* products/create-product.ts
formatProductResponse(payload) ==
    IF payload = None THEN Throws(NullDeref("variants"))
    ELSE LET r == flattenProduct(payload[1])
         IN IF r.thrown # None THEN r ELSE Returns([product |-> r.value[1]])

\* formatProductDetails without its null check: the first property read throws
formatProductDetailsUnchecked(payload) ==
    IF payload = None THEN Throws(NullDeref("variants"))
    ELSE LET r == flattenProduct(payload[1]) IN
         IF r.thrown # None THEN r
         ELSE Returns([product |-> r.value[1]])

\* products/get-product-by-id.ts
formatProductDetails(payload) ==
    IF payload = None THEN Throws(Err(<<"Product", " not found">>))
    ELSE LET r == flattenProduct(payload[1]) IN
         IF r.thrown # None THEN r
         ELSE IF payload[1].collections = None THEN Throws(NullDeref("edges"))
         ELSE Returns([product |->
                 ("collections" :> Map(mapEdgesToNodes(payload[1].collections[1].edges),
                                        LAMBDA c : [id |-> c.id, title |-> c.title]))
                 @@ r.value[1]])

productSummary(product) ==
    IF product.variants = None THEN Throws(NullDeref("edges"))
    ELSE IF product.images = None THEN Throws(NullDeref("edges"))
    ELSE Returns([id |-> product.id, title |-> product.title, status |-> product.status,
                  imageUrl |-> IF Len(product.images[1].edges) > 0
                               THEN Some(product.images[1].edges[1].node.url) ELSE None,
                  variants |-> Map(mapEdgesToNodes(product.variants[1].edges), LAMBDA v : [id |-> v.id, title |-> v.title, price |-> v.price])])

\* tools/products/get-products.ts
productsGetProductsResult(in, payload) ==
    LET r == MapThrowing(Map(Nodes(payload), productSummary))
    IN IF r.thrown # None THEN r ELSE Returns([products |-> r.value[1]])

\* collections: a custom one with its metafields, one whose metafields is null, an automated
\* one with its rule set
CollectionNodes ==
    LET full == [id |-> Gid("Collection", <<"3">>), title |-> <<"Sale">>, handle |-> <<"sale">>,
                 metafields |-> Conn(<<MetafieldNode>>), ruleSet |-> None]
    IN {full, [full EXCEPT !.metafields = None],
        [full EXCEPT !.ruleSet = Some([appliedDisjunctively |-> TRUE])]}

\* tools/createCollection.ts: metafields is handed on as the connection the API sent
createCollectionResult(in, payload) ==
    IF payload = None THEN Throws(NullDeref("id"))
    ELSE LET collection == payload[1] IN
         Returns([id |-> collection.id, handle |-> collection.handle, title |-> collection.title,
                  metafields |-> collection.metafields])

\* the createCollection.ts that keeps its handle in shopifyClient
createCollectionShopifyClientResult(in, payload) ==
    IF payload = None THEN Throws(NullDeref("metafields"))
    ELSE LET collection == payload[1]
             isAutomatedCollection == Has(in, "ruleSet")
             formattedCollection == [id |-> collection.id, title |-> collection.title,
                                     handle |-> collection.handle,
                                     metafields |-> metafieldsOrEmpty(collection)]
         IN \* if (isAutomatedCollection && collection.ruleSet) formattedCollection.ruleSet = ...
            IF isAutomatedCollection /\ collection.ruleSet # None
            THEN Returns([collection |-> ("ruleSet" :> collection.ruleSet[1]) @@ formattedCollection])
            ELSE Returns([collection |-> formattedCollection])

\* createMetafield.js
createMetafieldResult(in, payload) ==
    IF payload = None THEN Throws(NullDeref("id"))
    ELSE Returns([metafield |-> [id |-> payload[1].id, namespace |-> payload[1].namespace,
                                 key |-> payload[1].key]])

-----------------------------------------------------------------------------
(* The tool modules *)

\* modules that fetch the client with getGraphQLClient() and use the shared helpers
CentralTools ==
    {"tools/products/get-products", "tools/products/get-product-by-id", "tools/products/create-product",
     "tools/customers/get-customers", "tools/customers/create-customer",
     "tools/inventory/adjust-inventory", "tools/inventory/get-inventory-levels",
     "tools/orders/create-order"}

\* modules that keep the client in a module-level variable set by initialize(client)
LegacyTools ==
    {"tools/createOrder", "tools/createFulfillment", "tools/createCustomer", "tools/createCollection",
     "tools/createCollection(shopifyClient)", "tools/updateCustomer", "tools/setInventoryTracking",
     "tools/getInventoryItems", "tools/getLocations", "tools/createMetafield",
     "tools/connectInventoryToLocation", "tools/adjustInventory",
     "tools/disconnectInventoryFromLocation", "tools/createProduct", "tools/getInventoryLevels"}

\* modules index.ts imports and initialises whose source is not part of the repository snapshot
HandleOnlyTools ==
    {"tools/getProducts", "tools/getProductById", "tools/getCustomers", "tools/getOrders",
     "tools/getOrderById", "tools/updateOrder", "tools/getCustomerOrders"}

Tools == CentralTools \cup LegacyTools
Handles == LegacyTools \cup HandleOnlyTools

QueryTools ==
    {"tools/products/get-products", "tools/products/get-product-by-id", "tools/customers/get-customers",
     "tools/inventory/get-inventory-levels", "tools/getInventoryItems", "tools/getLocations",
     "tools/getInventoryLevels"}
MutationTools == Tools \ QueryTools

\* the operation named in the tool's failure messages
Label(t) ==
    CASE t = "tools/products/get-products" -> "fetch products"
      [] t = "tools/products/get-product-by-id" -> "fetch product details"
      [] t \in {"tools/products/create-product", "tools/createProduct"} -> "create product"
      [] t = "tools/customers/get-customers" -> "fetch customers"
      [] t \in {"tools/customers/create-customer", "tools/createCustomer"} -> "create customer"
      [] t \in {"tools/inventory/adjust-inventory", "tools/adjustInventory"} -> "adjust inventory"
      [] t \in {"tools/inventory/get-inventory-levels", "tools/getInventoryLevels"} -> "fetch inventory levels"
      [] t \in {"tools/orders/create-order", "tools/createOrder"} -> "create order"
      [] t = "tools/createFulfillment" -> "create fulfillment"
      [] t \in {"tools/createCollection", "tools/createCollection(shopifyClient)"} -> "create collection"
      [] t = "tools/updateCustomer" -> "update customer"
      [] t = "tools/setInventoryTracking" -> "set inventory tracking"
      [] t = "tools/getInventoryItems" -> "fetch inventory items"
      [] t = "tools/getLocations" -> "fetch locations"
      [] t = "tools/createMetafield" -> "create metafield"
      [] t = "tools/connectInventoryToLocation" -> "connect inventory to location"
      [] t = "tools/disconnectInventoryFromLocation" -> "disconnect inventory from location"

\* the inputs execute is called with, as typed by the module's input schema
Inputs(t) ==
    CASE t = "tools/products/get-products" ->
            Cross(Optional("searchTitle", {<<>>, <<"hat">>}), Required("limit", {10, 5}))
      [] t = "tools/products/get-product-by-id" ->
            Required("productId", IdSamples("Product"))
      [] t = "tools/products/create-product" ->
            Cross(Cross(Cross(Cross(Required("title", {<<"Hat">>}),
                                    Required("status", {"ACTIVE"})),
                              Optional("vendor", {<<>>, <<"Acme">>})),
                        Optional("variants", { << [price |-> <<"4.50">>] >>,
                                               << [price |-> <<"4.50">>, inventoryQuantity |-> 3] >> })),
                  Optional("collectionsToJoin", { << <<"3">> >>, << Gid("Collection", <<"3">>), <<>> >> }))
      [] t = "tools/customers/get-customers" ->
            Cross(Optional("searchQuery", {<<>>, <<"email:ann">>}), Required("limit", {10, 5}))
      [] t = "tools/customers/create-customer" ->
            Cross(Cross(Required("email", {<<"ann", "@", "example.com">>, <<"ann.example.com">>}), Optional("firstName", {<<>>, <<"Ann">>})),
                  Optional("acceptsMarketing", {FALSE}))
      [] t = "tools/inventory/adjust-inventory" ->
            Cross(Cross(Cross(Required("inventoryItemId", IdSamples("InventoryItem")),
                              Required("locationId", IdSamples("Location"))),
                        Required("availableDelta", {-3, 0, 2})),
                  Optional("reason", {<<"recount">>}))
      [] t = "tools/inventory/get-inventory-levels" ->
            Cross(Cross(Optional("locationId", IdSamples("Location")),
                        Optional("productId", {<<"1">>})),
                  Required("limit", {10, 5}))
      [] t = "tools/orders/create-order" ->
            Cross(Cross(Cross(Required("lineItems", LineItemLists),
                              Optional("customerId", IdSamples("Customer"))),
                        Optional("note", {<<"gift">>})),
                  Optional("sendReceipt", {FALSE}))
      [] t = "tools/createOrder" ->
            Cross(Cross(Required("lineItems", LineItemLists),
                        Optional("customerId", IdSamples("Customer"))),
                  Optional("note", {<<"gift">>}))
      [] t = "tools/createFulfillment" ->
            Cross(Cross(Cross(Required("orderId", IdSamples("Order") \cup {<<"123">>}),
                              Optional("lineItems", { << [id |-> <<"3">>, quantity |-> 1] >>, << >> })),
                        Optional("locationId", {<<"2">>})),
                  Required("notifyCustomer", BOOLEAN))
      [] t = "tools/createCustomer" ->
            Cross(Required("email", {<<"ann", "@", "example.com">>, <<"ann.example.com">>}), Optional("firstName", {<<>>, <<"Ann">>}))
      [] t = "tools/createCollection" ->
            Cross(Cross(Required("title", {<<"Sale">>, <<>>}),
                        Optional("handle", {<<>>, <<"sale">>})),
                  Optional("productsToAdd", { << <<"4">>, Gid("Product", <<"5">>) >>, << >> }))
      [] t = "tools/createCollection(shopifyClient)" ->
            Cross(Cross(Cross(Required("title", {<<"Sale">>, <<>>}),
                              Optional("handle", {<<>>, <<"sale">>})),
                        Optional("productsToAdd", { << <<"4">>, Gid("Product", <<"5">>) >>, << >> })),
                  Optional("ruleSet", {[appliedDisjunctively |-> TRUE]}))
      [] t = "tools/updateCustomer" ->
            Cross(Required("id", {<<>>, <<"5">>, Gid("Customer", <<"5">>)}), Optional("firstName", {<<>>, <<"Ann">>}))
      [] t = "tools/setInventoryTracking" ->
            Cross(Required("inventoryItemId", IdSamples("InventoryItem")),
                  Required("tracked", BOOLEAN))
      [] t = "tools/getInventoryItems" ->
            Cross(Cross(Cross(Optional("query", {<<"sku:A">>}),
                              Optional("productId", IdSamples("Product"))),
                        Optional("variantId", {<<"2">>})),
                  Required("limit", {10, 5}))
      [] t = "tools/getLocations" ->
            Cross(Optional("active", BOOLEAN), Required("limit", {10, 5}))
      [] t = "tools/createMetafield" ->
            Cross(Cross(Cross(Required("ownerId", IdSamples("Product")),
                              {[namespace |-> <<"custom">>, key |-> <<"color">>, value |-> <<"red">>,
                                type |-> <<"single_line_text_field">>]}),
                        Optional("description", {<<"shade">>})),
                  Required("ownerType", {"PRODUCT", "CUSTOMER"}))
      [] t = "tools/connectInventoryToLocation" ->
            Cross(Cross(Cross(Required("inventoryItemId", IdSamples("InventoryItem")),
                              Required("locationId", IdSamples("Location"))),
                        Required("available", {0, 5})),
                  Optional("reason", {<<"recount">>}))
      [] t = "tools/adjustInventory" ->
            Cross(Cross(Cross(Required("inventoryItemId", IdSamples("InventoryItem")),
                              Required("locationId", IdSamples("Location"))),
                        Required("availableDelta", {-3, 0, 2})),
                  Optional("reason", {<<"recount">>}))
      [] t = "tools/disconnectInventoryFromLocation" ->
            Cross(Cross(Required("inventoryItemId", IdSamples("InventoryItem")),
                        Required("locationId", IdSamples("Location"))),
                  Optional("reason", {<<"recount">>}))
      [] t = "tools/createProduct" ->
            Cross(Cross(Cross(Cross(Required("title", {<<"Hat">>}),
                                    Required("status", {"ACTIVE"})),
                              Optional("vendor", {<<>>, <<"Acme">>})),
                        Optional("variants", { << [price |-> <<"4.50">>] >>,
                                               << [price |-> <<"4.50">>, inventoryQuantity |-> 3] >> })),
                  Optional("collectionsToJoin", { << <<"3">> >>, << Gid("Collection", <<"3">>), <<>> >> }))
      [] t = "tools/getInventoryLevels" ->
            Cross(Optional("locationId", IdSamples("Location")), Required("limit", {10, 5}))

\* the variables object execute hands to client.request
Variables(t, in) ==
    CASE t = "tools/products/get-products" -> productsGetProductsVariables(in)
      [] t = "tools/products/get-product-by-id" -> [id |-> formatGid("Product", in.productId)]
      [] t = "tools/products/create-product" -> [input |-> formatProductInput(in)]
      [] t = "tools/customers/get-customers" -> customersGetCustomersVariables(in)
      [] t = "tools/customers/create-customer" -> customersCreateCustomerVariables(in)
      [] t = "tools/inventory/adjust-inventory" -> inventoryAdjustInventoryVariables(in)
      [] t = "tools/inventory/get-inventory-levels" -> inventoryGetInventoryLevelsVariables(in)
      [] t = "tools/orders/create-order" -> [order |-> formatOrderInput(in)]
      [] t = "tools/createOrder" -> createOrderVariables(in)
      [] t = "tools/createFulfillment" -> createFulfillmentVariables(in)
      [] t = "tools/createCustomer" -> [input |-> in]
      [] t = "tools/createCollection" -> createCollectionVariables(in)
      [] t = "tools/createCollection(shopifyClient)" -> createCollectionShopifyClientVariables(in)
      [] t = "tools/updateCustomer" -> updateCustomerVariables(in)
      [] t = "tools/setInventoryTracking" -> setInventoryTrackingVariables(in)
      [] t = "tools/getInventoryItems" -> getInventoryItemsVariables(in)
      [] t = "tools/getLocations" -> getLocationsVariables(in)
      [] t = "tools/createMetafield" -> createMetafieldVariables(in)
      [] t = "tools/connectInventoryToLocation" -> connectInventoryToLocationVariables(in)
      [] t = "tools/adjustInventory" -> adjustInventoryVariables(in)
      [] t = "tools/disconnectInventoryFromLocation" -> disconnectInventoryFromLocationVariables(in)
      [] t = "tools/createProduct" -> createProductVariables(in)
      [] t = "tools/getInventoryLevels" -> getInventoryLevelsVariables(in)

\* the statements between the userErrors check and the return
Result(t, in, payload) ==
    CASE t = "tools/products/get-products" -> productsGetProductsResult(in, payload)
      [] t = "tools/products/get-product-by-id" -> formatProductDetails(payload)
      [] t = "tools/products/create-product" -> formatProductResponse(payload)
      [] t = "tools/customers/get-customers" -> customersGetCustomersResult(in, payload)
      [] t = "tools/customers/create-customer" -> customersCreateCustomerResult(in, payload)
      [] t = "tools/inventory/adjust-inventory" -> inventoryAdjustInventoryResult(in, payload)
      [] t = "tools/inventory/get-inventory-levels" -> inventoryGetInventoryLevelsResult(in, payload)
      [] t = "tools/orders/create-order" -> formatOrderResponse(payload)
      [] t = "tools/createOrder" -> createOrderResult(in, payload)
      [] t = "tools/createFulfillment" -> createFulfillmentResult(in, payload)
      \* the customer as the API sent it: the fields the mutation document selects, or null
      [] t = "tools/createCustomer" ->
            Returns([customer |-> IF payload = None THEN None
                                  ELSE Some(Restrict(payload[1], {"id", "email", "firstName"}))])
      [] t = "tools/createCollection" -> createCollectionResult(in, payload)
      [] t = "tools/createCollection(shopifyClient)" -> createCollectionShopifyClientResult(in, payload)
      [] t = "tools/updateCustomer" -> updateCustomerResult(in, payload)
      [] t = "tools/setInventoryTracking" -> setInventoryTrackingResult(in, payload)
      [] t = "tools/getInventoryItems" -> getInventoryItemsResult(in, payload)
      [] t = "tools/getLocations" -> getLocationsResult(in, payload)
      [] t = "tools/createMetafield" -> createMetafieldResult(in, payload)
      [] t = "tools/connectInventoryToLocation" -> adjustInventoryResult(in, payload)
      [] t = "tools/adjustInventory" -> adjustInventoryResult(in, payload)
      [] t = "tools/disconnectInventoryFromLocation" -> disconnectInventoryFromLocationResult(in, payload)
      [] t = "tools/createProduct" -> createProductResult(in, payload)
      [] t = "tools/getInventoryLevels" -> getInventoryLevelsResult(in, payload)

-----------------------------------------------------------------------------
(* The answers of the transport, and what execute does with them *)

MaxUserErrors == 2

UserErrorSamples ==
    { [field |-> Some(<<"title">>), message |-> <<"can't be blank">>],
      [field |-> None,              message |-> <<"unknown ", "variant">>],
      [field |-> Some(<<>>),        message |-> <<"no such ", "customer">>] }

\* what client.request rejects with: Error objects, and a value that is not an Error
TransportFailures ==
    { Err(<<"Network request failed">>),
      Err(<<"GraphQL Error: ", "customer", " not found">>),
      Thrown(<<"socket hang up">>) }

Answer(error, userErrors, payload) ==
    [ok |-> error = None, error |-> error, userErrors |-> userErrors, payload |-> payload]

PayloadNodes(t) ==
    CASE t \in {"tools/inventory/adjust-inventory", "tools/adjustInventory",
                "tools/connectInventoryToLocation", "tools/disconnectInventoryFromLocation",
                "tools/inventory/get-inventory-levels", "tools/getInventoryLevels"} -> LevelNodes
      [] t \in {"tools/setInventoryTracking", "tools/getInventoryItems"} -> InventoryItemNodes
      [] t = "tools/getLocations" -> {LocationNode}
      [] t \in {"tools/orders/create-order", "tools/createOrder"} -> OrderNodes
      [] t = "tools/createFulfillment" -> {[id |-> Gid("Fulfillment", <<"3">>), status |-> "SUCCESS"]}
      [] t \in {"tools/createCustomer", "tools/customers/create-customer", "tools/updateCustomer",
                "tools/customers/get-customers"} -> CustomerNodes
      [] t \in {"tools/products/create-product", "tools/createProduct", "tools/products/get-products",
                "tools/products/get-product-by-id"} -> ProductNodes
      [] t \in {"tools/createCollection", "tools/createCollection(shopifyClient)"} -> CollectionNodes
      [] t = "tools/createMetafield" -> {MetafieldNode}

Responses(t) ==
    {Answer(Some(f), <<>>, None) : f \in TransportFailures}
    \cup
    (IF t \in MutationTools
     THEN {Answer(None, ue, None) : ue \in UNION {[1..n -> UserErrorSamples] : n \in 1..MaxUserErrors}}
          \cup {Answer(None, <<ue>>, Some(n)) : ue \in UserErrorSamples, n \in PayloadNodes(t)}
          \cup {Answer(None, <<>>, None)}
          \cup {Answer(None, <<>>, Some(n)) : n \in PayloadNodes(t)}
     ELSE IF t = "tools/products/get-product-by-id"
     THEN {Answer(None, <<>>, None)} \cup {Answer(None, <<>>, Some(n)) : n \in PayloadNodes(t)}
     \* root connections of a list query: no node, one node, two nodes
     ELSE LET nodes == PayloadNodes(t)
              connections == {Conn(<<>>)} \cup {Conn(<<n>>) : n \in nodes}
                                 \cup {Conn(<<n, m>>) : n \in nodes, m \in nodes}
          IN {Answer(None, <<>>, c) : c \in connections})

\* `${e.field}: ${e.message}`
renderFieldAndMessage(e) ==
    (IF e.field = None THEN <<"null">> ELSE e.field[1]) \o <<": ">> \o e.message

\* the userErrors check the legacy modules write inline
inlineUserErrors(userErrors, operation, withField) ==
    LET render(e) == IF withField THEN renderFieldAndMessage(e) ELSE e.message
    IN IF Len(userErrors) > 0
       THEN Some(Err(Failed(operation, JoinWith(Map(userErrors, render), <<", ">>))))
       ELSE None

\* the check of the mutation's userErrors: None when it passes, Some(error) when it throws
UserErrorCheck(t, userErrors) ==
    IF t \in QueryTools THEN None
    ELSE IF t \in CentralTools THEN handleGraphQLErrors(userErrors, Label(t))
    ELSE IF t = "tools/createCollection" THEN inlineUserErrors(userErrors, Label(t), FALSE)
    ELSE inlineUserErrors(userErrors, Label(t), TRUE)

\* error.message.includes(word) on a message of atoms
MessageIncludes(message, word) ==
    LET atoms == IF word = "variant" THEN {"variant", "variantId"} ELSE {"customer", "customerId"}
    IN \E i \in 1..Len(message) : message[i] \in atoms

\* the catch block of tools/createOrder.ts
createOrderCatch(error) ==
    IF error.isError
    THEN IF MessageIncludes(error.message, "variant")
         THEN Err(Failed("create order",
                  <<"Invalid product variant. Please check that all variant IDs are correct.">>))
         ELSE IF MessageIncludes(error.message, "customer")
         THEN Err(Failed("create order",
                  <<"Invalid customer ID. Please check the customer ID format.">>))
         ELSE Err(Failed("create order", error.message))
    ELSE Err(Failed("create order", <<"Unknown error occurred">>))

\* the catch block the other legacy modules write inline
inlineCatch(error, operation) ==
    Err(Failed(operation, IF error.isError THEN error.message ELSE error.value))

\* the error that leaves execute when error was thrown inside its try block
Catch(t, error) ==
    IF t \in CentralTools THEN handleExecutionError(error, Label(t))
    ELSE IF t = "tools/createOrder" THEN createOrderCatch(error)
    ELSE inlineCatch(error, Label(t))

-----------------------------------------------------------------------------
(* The entry points: start-up scripts and tool registrations *)

Statement(op, arg) == [op |-> op, arg |-> arg]

RECURSIVE SeqOf(_, _)
SeqOf(names, op) ==
    IF Len(names) = 0 THEN <<>> ELSE <<Statement(op, names[1])>> \o SeqOf(Tail(names), op)

\* index.ts: the modules initialised, in order
IndexInitialized ==
    <<"tools/getProducts", "tools/getProductById", "tools/getCustomers", "tools/getOrders",
      "tools/getOrderById", "tools/updateOrder", "tools/getCustomerOrders", "tools/updateCustomer",
      "tools/createCustomer", "tools/createOrder", "tools/createFulfillment", "tools/createProduct",
      "tools/createCollection", "tools/createMetafield", "tools/getInventoryLevels",
      "tools/getInventoryItems", "tools/getLocations", "tools/adjustInventory",
      "tools/setInventoryTracking", "tools/connectInventoryToLocation",
      "tools/disconnectInventoryFromLocation">>

\* index.ts: the tools registered, in order
IndexRegistered ==
    <<"get-products", "get-product-by-id", "get-customers", "get-orders", "get-order-by-id",
      "update-order", "get-customer-orders", "update-customer", "create-customer", "create-order",
      "create-fulfillment", "create-product", "create-collection", "create-metafield",
      "get-inventory-levels", "get-inventory-items", "get-locations", "adjust-inventory",
      "set-inventory-tracking", "connect-inventory-to-location",
      "disconnect-inventory-from-location">>

IndexScriptSkipsInitialize ==
    <<Statement("newClient", "2023-07")>>
    \o SeqOf(IndexRegistered, "tool")
    \o <<Statement("connect", "stdio")>>

IndexScript ==
    <<Statement("newClient", "2023-07")>>
    \o SeqOf(IndexInitialized, "initialize")
    \o SeqOf(IndexRegistered, "tool")
    \o <<Statement("connect", "stdio")>>

\* index-updated.ts: the legacy modules of the oldTools array
UpdatedInitialized ==
    <<"tools/connectInventoryToLocation", "tools/createCollection", "tools/createFulfillment",
      "tools/createMetafield", "tools/disconnectInventoryFromLocation", "tools/getCustomerOrders",
      "tools/getInventoryItems", "tools/getLocations", "tools/getOrderById", "tools/getOrders",
      "tools/setInventoryTracking", "tools/updateCustomer", "tools/updateOrder">>

UpdatedRegistered ==
    <<"get-products", "get-product-by-id", "create-product", "get-customers", "create-customer",
      "adjust-inventory", "get-inventory-levels">>

UpdatedScript ==
    <<Statement("initializeGraphQLClient", "2024-07"), Statement("newClient", "2024-07")>>
    \o SeqOf(UpdatedInitialized, "initialize")
    \o SeqOf(UpdatedRegistered, "tool")
    \o <<Statement("connect", "stdio")>>

Script(e) == IF e = "index" THEN IndexScript ELSE UpdatedScript

\* the module whose execute the registered handler calls
Implementation(e, name) ==
    IF e = "index-updated"
    THEN CASE name = "get-products" -> "tools/products/get-products"
           [] name = "get-product-by-id" -> "tools/products/get-product-by-id"
           [] name = "create-product" -> "tools/products/create-product"
           [] name = "get-customers" -> "tools/customers/get-customers"
           [] name = "create-customer" -> "tools/customers/create-customer"
           [] name = "adjust-inventory" -> "tools/inventory/adjust-inventory"
           [] name = "get-inventory-levels" -> "tools/inventory/get-inventory-levels"
    ELSE CASE name = "get-products" -> "tools/getProducts"
           [] name = "get-product-by-id" -> "tools/getProductById"
           [] name = "get-customers" -> "tools/getCustomers"
           [] name = "get-orders" -> "tools/getOrders"
           [] name = "get-order-by-id" -> "tools/getOrderById"
           [] name = "update-order" -> "tools/updateOrder"
           [] name = "get-customer-orders" -> "tools/getCustomerOrders"
           [] name = "update-customer" -> "tools/updateCustomer"
           [] name = "create-customer" -> "tools/createCustomer"
           [] name = "create-order" -> "tools/createOrder"
           [] name = "create-fulfillment" -> "tools/createFulfillment"
           [] name = "create-product" -> "tools/createProduct"
           [] name = "create-collection" -> "tools/createCollection"
           [] name = "create-metafield" -> "tools/createMetafield"
           [] name = "get-inventory-levels" -> "tools/getInventoryLevels"
           [] name = "get-inventory-items" -> "tools/getInventoryItems"
           [] name = "get-locations" -> "tools/getLocations"
           [] name = "adjust-inventory" -> "tools/adjustInventory"
           [] name = "set-inventory-tracking" -> "tools/setInventoryTracking"
           [] name = "connect-inventory-to-location" -> "tools/connectInventoryToLocation"
           [] name = "disconnect-inventory-from-location" -> "tools/disconnectInventoryFromLocation"

-----------------------------------------------------------------------------
(* The zod shapes the entry points register the tools with *)

\* z.string().regex(/^\d+$/)
IsNumeric(str) ==
    Len(str) > 0 /\ \A i \in 1..Len(str) : str[i] \in {"0", "1", "2", "3", "4", "5", "6", "7", "8", "9"}

\* z.string().email()
IsEmail(str) == Len(str) = 3 /\ str[2] = "@"

\* z.string().min(1)
NonEmpty(str) == Len(str) >= 1

DefaultLimit == 10

\* the keys of the registered shape; zod drops every other key of the arguments
ShapeKeys(e, name) ==
    CASE name = "get-products" -> {"searchTitle", "limit"}
      [] name = "get-product-by-id" -> {"productId"}
      [] name = "get-customers" -> IF e = "index-updated" THEN {"searchEmail", "limit"}
                                   ELSE {"searchQuery", "limit"}
      [] name = "update-customer" -> {"id", "firstName", "lastName", "email", "phone", "tags", "note"}
      [] name = "create-customer" ->
            IF e = "index-updated" THEN {"email", "firstName", "lastName", "phone", "acceptsMarketing", "tags"}
            ELSE {"email", "firstName", "lastName", "phone", "taxExempt"}
      [] name = "create-order" -> {"email", "phone", "note", "tags", "lineItems", "lineItemsText",
                                   "customerId"}
      [] name = "create-fulfillment" -> {"orderId", "notifyCustomer", "lineItems", "locationId"}
      [] name = "create-product" -> {"title", "vendor", "status", "variants", "collectionsToJoin"}
      [] name = "create-collection" -> {"title", "handle", "productsToAdd", "ruleSet"}
      [] name = "create-metafield" -> {"ownerId", "namespace", "key", "value", "type", "description", "ownerType"}
      [] name = "get-inventory-levels" -> IF e = "index-updated" THEN {"locationId", "productId", "limit"}
                                          ELSE {"locationId", "limit"}
      [] name = "get-inventory-items" -> {"query", "productId", "variantId", "limit"}
      [] name = "get-locations" -> {"active", "limit"}
      [] name = "adjust-inventory" -> {"inventoryItemId", "availableDelta", "locationId", "reason"}
      [] name = "set-inventory-tracking" -> {"inventoryItemId", "tracked"}
      [] name = "connect-inventory-to-location" -> {"inventoryItemId", "locationId", "available", "reason"}
      [] name = "disconnect-inventory-from-location" -> {"inventoryItemId", "locationId", "reason"}

\* shapes whose limit falls back to another page size than the one callers get by passing 10
DefaultsFifty(e, name) ==
    CASE name \in {"get-products", "get-customers", "get-inventory-levels", "get-inventory-items",
                   "get-locations"} -> [limit |-> 50]
      [] name = "create-fulfillment" -> [notifyCustomer |-> TRUE]
      [] name = "create-product" -> [status |-> "ACTIVE"]
      [] name = "create-metafield" -> [ownerType |-> "PRODUCT"]
      [] OTHER -> EmptyRecord

\* the values .default(...) supplies for keys the caller left out
Defaults(e, name) ==
    CASE name \in {"get-products", "get-customers", "get-inventory-levels", "get-inventory-items",
                   "get-locations"} -> [limit |-> DefaultLimit]
      [] name = "create-fulfillment" -> [notifyCustomer |-> TRUE]
      [] name = "create-product" -> [status |-> "ACTIVE"]
      [] name = "create-metafield" -> [ownerType |-> "PRODUCT"]
      [] OTHER -> EmptyRecord

\* the constraints of the registered shape on the arguments
Accepts(e, name, args) ==
    CASE name = "get-product-by-id" -> NonEmpty(args.productId)
      [] name = "update-customer" -> IsNumeric(args.id)
      [] name = "create-customer" -> IsEmail(args.email)
      [] name = "create-order" ->
            \* z.array(...).nonempty(): a string is not an array
            /\ Has(args, "lineItems")
            /\ Len(args.lineItems) > 0
            /\ \A i \in 1..Len(args.lineItems) : args.lineItems[i].quantity > 0
      [] name = "create-fulfillment" ->
            /\ NonEmpty(args.orderId)
            /\ Has(args, "lineItems") =>
                   \A i \in 1..Len(args.lineItems) :
                       NonEmpty(args.lineItems[i].id) /\ args.lineItems[i].quantity > 0
      [] name \in {"create-product", "create-collection"} -> NonEmpty(args.title)
      [] name = "create-metafield" ->
            NonEmpty(args.ownerId) /\ NonEmpty(args.namespace) /\ NonEmpty(args.key)
                /\ NonEmpty(args.value) /\ NonEmpty(args.type)
      [] name = "adjust-inventory" ->
            e = "index" => NonEmpty(args.inventoryItemId) /\ NonEmpty(args.locationId)
      [] name = "set-inventory-tracking" -> NonEmpty(args.inventoryItemId)
      [] name \in {"connect-inventory-to-location", "disconnect-inventory-from-location"} ->
            NonEmpty(args.inventoryItemId) /\ NonEmpty(args.locationId)
      [] OTHER -> TRUE

\* the arguments the handler receives: unknown keys dropped, defaults filled in
Parse(e, name, args) ==
    LET known == Restrict(args, ShapeKeys(e, name))
        items == IF name = "create-order" /\ Has(known, "lineItems")
                 THEN [known EXCEPT !.lineItems =
                          [i \in 1..Len(@) |-> Restrict(@[i], {"variantId", "quantity", "customAttributes"})]]
                 ELSE known
    IN items @@ Defaults(e, name)

\* JSON texts a client may put in lineItems, as token sequences (punctuation between the
\* tokens left out): the array with one item, a bare object, two items, the empty array,
\* a truncated text
LineItemTexts ==
    LET item(v, q) == <<"{", "variantId", v, "quantity", q, "}">>
    IN { <<"[">> \o item("9", "2") \o <<"]">>,
         item("9", "2"),
         <<"[">> \o item("9", "1") \o item("1", "3") \o <<"]">>,
         <<"[", "]">>,
         <<"[", "{">> }

\* what a client may send to a registered tool: a typed input, or one without the defaulted
\* keys; to create-order also lineItems as a string (key lineItemsText in place of lineItems)
Arguments(e, name) ==
    LET typed == Inputs(Implementation(e, name))
    IN typed \cup {Without(in, DOMAIN Defaults(e, name)) : in \in typed}
             \cup (IF name = "create-order"
                   THEN {[lineItemsText |-> text] : text \in LineItemTexts} ELSE {})

-----------------------------------------------------------------------------
(* The state machine *)

Init ==
    /\ entry \in {"index", "index-updated", "module"}
    /\ unit \in (IF entry = "module" THEN Tools ELSE {"none"})
    /\ pc = 1
    /\ centralClient = None
    /\ localClient = None
    /\ toolClient = [h \in Handles |-> None]
    /\ registered = {}
    /\ connected = FALSE
    /\ phase = "idle"
    /\ via = "none"
    /\ tool = "none"
    /\ input = EmptyRecord
    /\ hadClient = FALSE
    /\ sent = <<>>
    /\ response = None
    /\ payloadRead = FALSE
    /\ caught = None
    /\ outcome = None
    /\ served = None
    /\ fn = [stage |-> "idle"]

Failure(error) == Some([kind |-> "error", error |-> error])
Success(value) == Some([kind |-> "result", value |-> value])

\* the client the module would send its request with: None while not initialised
ClientOf(t) == IF t \in CentralTools THEN centralClient ELSE toolClient[t]

\* execute up to its await: the client is fetched (central modules) or dereferenced (legacy modules)
\* and the request is issued; an error thrown on the way is caught by the module's catch block
Begin(t, in) ==
    LET missing == IF t \in CentralTools
                   THEN getGraphQLClient(centralClient).thrown
                   ELSE IF toolClient[t] = None THEN Some(UndefinedDeref("request")) ELSE None
        client == IF t \in CentralTools THEN getGraphQLClient(centralClient).client ELSE toolClient[t]
    IN IF missing # None
       THEN [phase |-> "done", sent |-> <<>>, caught |-> missing,
             outcome |-> Failure(Catch(t, missing[1]))]
       ELSE [phase |-> "awaiting", sent |-> <<[client |-> client, variables |-> Variables(t, in)]>>,
             caught |-> None, outcome |-> None]

\* execute after its await: the rejection is caught, or the userErrors are checked and the payload formatted
Continue(t, in, answer) ==
    IF ~answer.ok
    THEN [read |-> FALSE, caught |-> answer.error, outcome |-> Failure(Catch(t, answer.error[1]))]
    ELSE LET check == UserErrorCheck(t, answer.userErrors) IN
         IF check # None
         THEN [read |-> FALSE, caught |-> check, outcome |-> Failure(Catch(t, check[1]))]
         ELSE LET r == Result(t, in, answer.payload) IN
              IF r.thrown # None
              THEN [read |-> TRUE, caught |-> r.thrown, outcome |-> Failure(Catch(t, r.thrown[1]))]
              ELSE [read |-> TRUE, caught |-> None, outcome |-> Success(r.value[1])]

\* JSON.parse of a lineItems text: [isArray, value] for an array of objects or one object,
\* a SyntaxError for anything else
jsonParse(text) ==
    LET number == [d \in {"0", "1", "2", "3"} |-> CASE d = "0" -> 0 [] d = "1" -> 1
                                                     [] d = "2" -> 2 [] d = "3" -> 3]
        isObject(k) == /\ k + 5 <= Len(text)
                       /\ text[k] = "{" /\ text[k + 1] = "variantId" /\ text[k + 3] = "quantity"
                       /\ text[k + 4] \in DOMAIN number /\ text[k + 5] = "}"
        object(k) == [variantId |-> <<text[k + 2]>>, quantity |-> number[text[k + 4]]]
        count == (Len(text) - 2) \div 6
    IN IF Len(text) = 6 /\ isObject(1) THEN Returns([isArray |-> FALSE, value |-> object(1)])
       ELSE IF /\ Len(text) >= 2 /\ text[1] = "[" /\ text[Len(text)] = "]"
               /\ Len(text) = 2 + 6 * count
               /\ \A i \in 1..count : isObject(6 * i - 4)
       THEN Returns([isArray |-> TRUE, value |-> [i \in 1..count |-> object(6 * i - 4)]])
       ELSE Throws(Err(<<"Unexpected end of JSON input">>))

\* index.ts create-order: lineItems given as a string is parsed, and a parsed value that is
\* not an array is wrapped in one
processLineItems(args) ==
    IF ~Has(args, "lineItemsText") THEN Returns(args)
    ELSE LET parsed == jsonParse(args.lineItemsText) IN
         IF parsed.thrown # None
         THEN Throws(Err(<<"Invalid lineItems format. Expected a valid JSON array.">>))
         ELSE Returns(("lineItems" :> (IF parsed.value[1].isArray THEN parsed.value[1].value
                                       ELSE <<parsed.value[1].value>>))
                      @@ Without(args, {"lineItemsText"}))

\* a handler whose loop over the line items checks the quantity only
lineItemCheckQuantityOnly(args) ==
    LET bad == {i \in 1..Len(args.lineItems) : args.lineItems[i].quantity <= 0}
        first == CHOOSE i \in bad : \A j \in bad : i <= j
        indexText == <<"0", "1", "2">>[first]
    IN IF bad = {} THEN None
       ELSE Some(Err(<<"Line item at index ", indexText,
                       " has invalid quantity. Must be a positive number.">>))

\* index.ts create-order: the checks the handler makes on each line item before calling execute
lineItemCheck(args) ==
    LET bad == {i \in 1..Len(args.lineItems) :
                   args.lineItems[i].variantId = <<>> \/ args.lineItems[i].quantity <= 0}
        first == CHOOSE i \in bad : \A j \in bad : i <= j
        \* `${index}`: the forEach index counts from 0
        indexText == <<"0", "1", "2">>[first]
    IN IF bad = {} THEN None
       ELSE IF args.lineItems[first].variantId = <<>>
       THEN Some(Err(<<"Line item at index ", indexText, " is missing variantId">>))
       ELSE Some(Err(<<"Line item at index ", indexText,
                       " has invalid quantity. Must be a positive number.">>))

\* what the registered handler hands back to the MCP server for an outcome of execute
Serve(e, name, out) ==
    IF out[1].kind = "result" THEN Some([kind |-> "content", value |-> out[1].value])
    ELSE IF e = "index" /\ name = "create-order"
    THEN Some([kind |-> "error",
               error |-> Err(Failed("create order", out[1].error.message))])
    ELSE Some([kind |-> "error", error |-> out[1].error])

\* one statement of the entry point's start-up code
StartupStep ==
    /\ entry \in {"index", "index-updated"}
    /\ pc <= Len(Script(entry))
    /\ LET st == Script(entry)[pc] IN
       /\ localClient' = IF st.op = "newClient"
                         THEN Some(NewClient(entry, "shop.myshopify.com", st.arg, "shpat")) ELSE localClient
       /\ centralClient' = IF st.op = "initializeGraphQLClient"
                           THEN initializeGraphQLClient("shop.myshopify.com", "shpat") ELSE centralClient
       /\ toolClient' = IF st.op = "initialize"
                        THEN [toolClient EXCEPT ![st.arg] = localClient] ELSE toolClient
       /\ registered' = IF st.op = "tool" THEN registered \cup {st.arg} ELSE registered
       /\ connected' = IF st.op = "connect" THEN TRUE ELSE connected
    /\ pc' = pc + 1
    /\ UNCHANGED <<entry, unit, phase, via, tool, input, hadClient, sent, response, payloadRead,
                   caught, outcome, served, fn>>

\* a program using the module calls initializeGraphQLClient
CallInitializeGraphQLClient ==
    /\ entry = "module" /\ unit \in CentralTools /\ phase = "idle"
    /\ centralClient' = initializeGraphQLClient("shop.myshopify.com", "shpat")
    /\ UNCHANGED <<entry, unit, pc, toolClient, registered, connected, phase, via, tool, input,
                   hadClient, sent, response, payloadRead, caught, outcome, served, localClient, fn>>

\* a program using the module calls its initialize(client)
CallInitialize ==
    /\ entry = "module" /\ unit \in LegacyTools /\ phase = "idle"
    /\ toolClient' = [toolClient EXCEPT ![unit] = Some(NewClient("caller", "shop.myshopify.com", "2024-07", "shpat"))]
    /\ UNCHANGED <<entry, unit, pc, centralClient, registered, connected, phase, via, tool, input,
                   hadClient, sent, response, payloadRead, caught, outcome, served, localClient, fn>>

\* a program using the module calls execute(input)
Execute ==
    /\ entry = "module" /\ phase = "idle"
    /\ \E in \in Inputs(unit) :
         LET b == Begin(unit, in) IN
         /\ tool' = unit
         /\ via' = "direct"
         /\ input' = in
         /\ hadClient' = (ClientOf(unit) # None)
         /\ phase' = b.phase
         /\ sent' = b.sent
         /\ caught' = b.caught
         /\ outcome' = b.outcome
    /\ response' = None
    /\ payloadRead' = FALSE
    /\ served' = None
    /\ UNCHANGED <<entry, unit, pc, centralClient, toolClient, registered, connected, localClient, fn>>

\* the MCP server dispatches a tools/call request to the registered handler
Dispatch ==
    /\ entry \in {"index", "index-updated"} /\ connected /\ phase = "idle"
    /\ \E name \in registered :
         /\ Implementation(entry, name) \in Tools
         /\ \E args \in Arguments(entry, name) :
              LET t == Implementation(entry, name)
                  parsed == Parse(entry, name, args)
                  processed == IF entry = "index" /\ name = "create-order"
                               THEN processLineItems(parsed) ELSE Returns(parsed)
                  in == IF processed.thrown # None THEN parsed ELSE processed.value[1]
                  pre == IF processed.thrown # None THEN processed.thrown
                         ELSE IF entry = "index" /\ name = "create-order" THEN lineItemCheck(in)
                         ELSE None
                  b == Begin(t, in)
              IN /\ tool' = t
                 /\ fn' = [stage |-> "called", arguments |-> args]
                 /\ via' = name
                 /\ hadClient' = (ClientOf(t) # None)
                 /\ IF ~Accepts(entry, name, args)
                    THEN /\ input' = args
                         /\ phase' = "done"
                         /\ sent' = <<>>
                         /\ caught' = None
                         /\ outcome' = None
                         /\ served' = Some([kind |-> "invalid"])
                    ELSE IF pre # None
                    THEN /\ input' = in
                         /\ phase' = "done"
                         /\ sent' = <<>>
                         /\ caught' = None
                         /\ outcome' = None
                         /\ served' = Some([kind |-> "error",
                                            error |-> Err(Failed("create order", pre[1].message))])
                    ELSE /\ input' = in
                         /\ phase' = b.phase
                         /\ sent' = b.sent
                         /\ caught' = b.caught
                         /\ outcome' = b.outcome
                         /\ served' = IF b.outcome # None THEN Serve(entry, name, b.outcome) ELSE None
    /\ response' = None
    /\ payloadRead' = FALSE
    /\ UNCHANGED <<entry, unit, pc, centralClient, toolClient, registered, connected, localClient>>

\* the transport settles the pending request and execute runs to its end
Respond ==
    /\ phase = "awaiting"
    /\ \E answer \in Responses(tool) :
         LET c == Continue(tool, input, answer) IN
         /\ response' = Some(answer)
         /\ payloadRead' = c.read
         /\ caught' = c.caught
         /\ outcome' = c.outcome
         /\ served' = IF via = "direct" THEN None ELSE Serve(entry, via, c.outcome)
    /\ phase' = "done"
    /\ UNCHANGED <<entry, unit, pc, centralClient, toolClient, registered, connected, via, tool,
                   input, hadClient, sent, localClient, fn>>

\* a handler that clears the module-level handles when it returns
FinishDropsClient ==
    /\ phase = "done"
    /\ phase' = "idle"
    /\ via' = "none"
    /\ tool' = "none"
    /\ input' = EmptyRecord
    /\ hadClient' = FALSE
    /\ sent' = <<>>
    /\ response' = None
    /\ payloadRead' = FALSE
    /\ caught' = None
    /\ outcome' = None
    /\ served' = None
    /\ centralClient' = None
    /\ toolClient' = [h \in Handles |-> None]
    /\ fn' = [stage |-> "idle"]
    /\ UNCHANGED <<entry, unit, pc, registered, connected, localClient>>

\* the caller has taken the outcome; the next invocation can start
Finish ==
    /\ phase = "done"
    /\ phase' = "idle"
    /\ via' = "none"
    /\ tool' = "none"
    /\ input' = EmptyRecord
    /\ hadClient' = FALSE
    /\ sent' = <<>>
    /\ response' = None
    /\ payloadRead' = FALSE
    /\ caught' = None
    /\ outcome' = None
    /\ served' = None
    /\ fn' = [stage |-> "idle"]
    /\ UNCHANGED <<entry, unit, pc, centralClient, toolClient, registered, connected, localClient>>

Next ==
    \/ StartupStep
    \/ CallInitializeGraphQLClient
    \/ CallInitialize
    \/ Execute
    \/ Dispatch
    \/ Respond
    \/ Finish

Spec == Init /\ [][Next]_vars

-----------------------------------------------------------------------------
(* Concurrent invocations: execute is an async function, so a second invocation can start
   while the first is suspended on its request *)

MaxConcurrent == 2

\* two inputs per tool that differ in what the request carries
ConcurrentInputs(t) ==
    IF t = "tools/inventory/adjust-inventory"
    THEN {in \in Inputs(t) : /\ in.inventoryItemId = <<"1">> /\ in.locationId = <<"1">>
                             /\ in.availableDelta # 0 /\ ~Has(in, "reason")}
    ELSE {in \in Inputs(t) : /\ DOMAIN in = {"lineItems"} /\ Len(in.lineItems) > 0
                             /\ \A i \in 1..Len(in.lineItems) :
                                   in.lineItems[i].variantId # <<>> /\ in.lineItems[i].quantity > 1}

\* a rejection, userErrors without a payload, and payloads without userErrors
ConcurrentResponses(t) ==
    {a \in Responses(t) : \/ ~a.ok /\ a.error[1] = Err(<<"Network request failed">>)
                          \/ a.ok /\ Len(a.userErrors) = 1 /\ a.payload = None
                          \/ a.ok /\ a.userErrors = <<>> /\ a.payload # None}

\* the continuation reads the userErrors of another invocation's response
ScopeShared(calls, s) ==
    LET others == {o \in DOMAIN calls : o # s /\ calls[o].data # None} IN
    IF others = {} THEN calls[s]
    ELSE LET o == CHOOSE o \in others : TRUE
         IN [calls[s] EXCEPT !.data = Some([@[1] EXCEPT !.userErrors = calls[o].data[1].userErrors])]

\* input, variables and data are parameters and block-scoped constants of execute: each
\* invocation's continuation reads its own
Scope(calls, s) == calls[s]

InitConcurrent ==
    /\ fn = [stage |-> "serving",
             calls |-> [s \in 1..MaxConcurrent |->
                           [phase |-> "idle", tool |-> "none", input |-> EmptyRecord,
                            sent |-> <<>>, data |-> None, outcome |-> None]]]
    /\ entry = "concurrent" /\ unit = "none" /\ pc = 1
    /\ centralClient = initializeGraphQLClient("shop.myshopify.com", "shpat")
    /\ localClient = Some(NewClient("index-updated", "shop.myshopify.com", "2024-07", "shpat"))
    /\ toolClient = [h \in Handles |-> localClient]
    /\ registered = {} /\ connected = TRUE /\ phase = "idle" /\ via = "none" /\ tool = "none"
    /\ input = EmptyRecord /\ hadClient = FALSE /\ sent = <<>> /\ response = None
    /\ payloadRead = FALSE /\ caught = None /\ outcome = None /\ served = None

\* an invocation starts while others may be suspended: execute runs up to its await
BeginConcurrent ==
    /\ fn.stage = "serving"
    /\ \E s \in DOMAIN fn.calls, t \in {"tools/inventory/adjust-inventory", "tools/createOrder"} :
         /\ fn.calls[s].phase = "idle"
         /\ \E in \in ConcurrentInputs(t) :
              LET b == Begin(t, in) IN
              fn' = [fn EXCEPT !.calls[s] =
                        [phase |-> b.phase, tool |-> t, input |-> in, sent |-> b.sent,
                         data |-> None, outcome |-> b.outcome]]
    /\ UNCHANGED <<entry, unit, pc, centralClient, toolClient, registered, connected, phase, via,
                   tool, input, hadClient, sent, response, payloadRead, caught, outcome, served,
                   localClient>>

\* the transport settles the request of one suspended invocation
SettleConcurrent ==
    /\ fn.stage = "serving"
    /\ \E s \in DOMAIN fn.calls :
         /\ fn.calls[s].phase = "awaiting"
         /\ \E answer \in ConcurrentResponses(fn.calls[s].tool) :
              fn' = [fn EXCEPT !.calls[s].phase = "settled", !.calls[s].data = Some(answer)]
    /\ UNCHANGED <<entry, unit, pc, centralClient, toolClient, registered, connected, phase, via,
                   tool, input, hadClient, sent, response, payloadRead, caught, outcome, served,
                   localClient>>

\* the continuation of a settled invocation runs to the end of execute
ResumeConcurrent ==
    /\ fn.stage = "serving"
    /\ \E s \in DOMAIN fn.calls :
         /\ fn.calls[s].phase = "settled"
         /\ LET own == Scope(fn.calls, s) IN
            fn' = [fn EXCEPT !.calls[s].phase = "done",
                             !.calls[s].outcome = Continue(own.tool, own.input, own.data[1]).outcome]
    /\ UNCHANGED <<entry, unit, pc, centralClient, toolClient, registered, connected, phase, via,
                   tool, input, hadClient, sent, response, payloadRead, caught, outcome, served,
                   localClient>>

NextConcurrent == BeginConcurrent \/ SettleConcurrent \/ ResumeConcurrent

SpecConcurrent == InitConcurrent /\ [][NextConcurrent]_vars

-----------------------------------------------------------------------------
(* The inventory tools against a platform that keeps, for one inventory item and one location,
   whether the item is stocked there and tracked *)

\* adjust-inventory sending the activation mutation
MutationActivates(t) ==
    CASE t \in {"tools/inventory/adjust-inventory", "tools/adjustInventory"} -> "inventoryActivate"
      [] t = "tools/connectInventoryToLocation" -> "inventoryActivate"
      [] t = "tools/disconnectInventoryFromLocation" -> "inventoryDeactivate"
      [] t = "tools/setInventoryTracking" -> "inventoryItemUpdate"

\* the root field of the GraphQL document each inventory tool sends
Mutation(t) ==
    CASE t \in {"tools/inventory/adjust-inventory", "tools/adjustInventory"} -> "inventoryAdjustQuantity"
      [] t = "tools/connectInventoryToLocation" -> "inventoryActivate"
      [] t = "tools/disconnectInventoryFromLocation" -> "inventoryDeactivate"
      [] t = "tools/setInventoryTracking" -> "inventoryItemUpdate"

\* the platform's side of a mutation on the pair: the state it leaves the pair in, and whether
\* it rejects the mutation with userErrors
Platform(pair, mutation, v) ==
    CASE mutation = "inventoryAdjustQuantity" ->
            [pair |-> pair, rejected |-> pair # "connected-tracked"]
      [] mutation = "inventoryActivate" ->
            [pair |-> IF pair = "disconnected" THEN "connected-untracked" ELSE pair,
             rejected |-> FALSE]
      [] mutation = "inventoryDeactivate" ->
            [pair |-> "disconnected", rejected |-> pair = "disconnected"]
      [] mutation = "inventoryItemUpdate" ->
            [pair |-> IF pair = "disconnected" THEN pair
                      ELSE IF v.input.tracked THEN "connected-tracked" ELSE "connected-untracked",
             rejected |-> FALSE]

InitInventory ==
    /\ fn \in [stage : {"inventory"},
               pair : {"disconnected", "connected-untracked", "connected-tracked"},
               call : {[phase |-> "idle", tool |-> "none", input |-> EmptyRecord,
                        mutation |-> "none", sent |-> <<>>, before |-> "none", outcome |-> None]}]
    /\ entry = "inventory" /\ unit = "none" /\ pc = 1
    /\ centralClient = initializeGraphQLClient("shop.myshopify.com", "shpat")
    /\ localClient = Some(NewClient("index", "shop.myshopify.com", "2023-07", "shpat"))
    /\ toolClient = [h \in Handles |-> localClient]
    /\ registered = {} /\ connected = TRUE /\ phase = "idle" /\ via = "none" /\ tool = "none"
    /\ input = EmptyRecord /\ hadClient = FALSE /\ sent = <<>> /\ response = None
    /\ payloadRead = FALSE /\ caught = None /\ outcome = None /\ served = None

\* an inventory tool is invoked for the pair and issues its mutation
InvokeInventory ==
    /\ fn.stage = "inventory" /\ fn.call.phase = "idle"
    /\ \E t \in {"tools/inventory/adjust-inventory", "tools/adjustInventory",
                 "tools/connectInventoryToLocation", "tools/disconnectInventoryFromLocation",
                 "tools/setInventoryTracking"} :
         \E in \in {i \in Inputs(t) : /\ i.inventoryItemId = <<"1">>
                                      /\ Has(i, "locationId") => i.locationId = <<"1">>} :
            fn' = [fn EXCEPT !.call = [phase |-> "awaiting", tool |-> t, input |-> in,
                                       mutation |-> Mutation(t), sent |-> Begin(t, in).sent,
                                       before |-> "none", outcome |-> None]]
    /\ UNCHANGED <<entry, unit, pc, centralClient, toolClient, registered, connected, phase, via,
                   tool, input, hadClient, sent, response, payloadRead, caught, outcome, served,
                   localClient>>

\* the platform applies or rejects the mutation and answers; execute runs to its end
AnswerInventory ==
    /\ fn.stage = "inventory" /\ fn.call.phase = "awaiting"
    /\ LET call == fn.call
           p == Platform(fn.pair, call.mutation, call.sent[1].variables)
           answers == IF p.rejected
                      THEN {Answer(None, <<ue>>, None) : ue \in UserErrorSamples}
                      ELSE {Answer(None, <<>>, Some(n)) : n \in PayloadNodes(call.tool)}
       IN \E answer \in answers :
            fn' = [fn EXCEPT !.pair = p.pair,
                             !.call.phase = "done",
                             !.call.before = fn.pair,
                             !.call.outcome = Continue(call.tool, call.input, answer).outcome]
    /\ UNCHANGED <<entry, unit, pc, centralClient, toolClient, registered, connected, phase, via,
                   tool, input, hadClient, sent, response, payloadRead, caught, outcome, served,
                   localClient>>

\* the caller has taken the outcome; the next invocation can start
FinishInventory ==
    /\ fn.stage = "inventory" /\ fn.call.phase = "done"
    /\ fn' = [fn EXCEPT !.call = [phase |-> "idle", tool |-> "none", input |-> EmptyRecord,
                                  mutation |-> "none", sent |-> <<>>, before |-> "none",
                                  outcome |-> None]]
    /\ UNCHANGED <<entry, unit, pc, centralClient, toolClient, registered, connected, phase, via,
                   tool, input, hadClient, sent, response, payloadRead, caught, outcome, served,
                   localClient>>

NextInventory == InvokeInventory \/ AnswerInventory \/ FinishInventory

SpecInventory == InitInventory /\ [][NextInventory]_vars

-----------------------------------------------------------------------------
(* formatGid on its own: every resource type and token of the bounded sets *)

MaxTokenLen == 2

ResourceTypes == {"Product", "Order", "Location"}

\* tokens: short strings over a few characters, bare or behind a prefix that is, or nearly is, gid://
Tokens ==
    LET atoms == {"1", "7", "/", "g"}
        tails == UNION {[1..n -> atoms] : n \in 0..MaxTokenLen}
        heads == {<<>>, GidScheme, <<"g", "i", "d", ":", "/">>, GidScheme \o <<"shopify/", "Order", "/">>}
    IN {h \o t : h \in heads, t \in tails}

InitFormatGid ==
    /\ fn \in [stage : {"input"}, type : ResourceTypes, id : Tokens, once : {<<>>}, twice : {<<>>}]
    /\ entry = "formatters" /\ unit = "none" /\ pc = 1
    /\ centralClient = None /\ localClient = None /\ toolClient = [h \in Handles |-> None]
    /\ registered = {} /\ connected = FALSE /\ phase = "idle" /\ via = "none" /\ tool = "none"
    /\ input = EmptyRecord /\ hadClient = FALSE /\ sent = <<>> /\ response = None
    /\ payloadRead = FALSE /\ caught = None /\ outcome = None /\ served = None

\* formatGid(type, id)
ApplyFormatGid ==
    /\ fn.stage = "input"
    /\ fn' = [fn EXCEPT !.stage = "once", !.once = formatGid(fn.type, fn.id)]
    /\ UNCHANGED <<entry, unit, pc, centralClient, toolClient, registered, connected, phase, via,
                   tool, input, hadClient, sent, response, payloadRead, caught, outcome, served,
                   localClient>>

\* formatGid(type, formatGid(type, id))
ReapplyFormatGid ==
    /\ fn.stage = "once"
    /\ fn' = [fn EXCEPT !.stage = "twice", !.twice = formatGid(fn.type, fn.once)]
    /\ UNCHANGED <<entry, unit, pc, centralClient, toolClient, registered, connected, phase, via,
                   tool, input, hadClient, sent, response, payloadRead, caught, outcome, served,
                   localClient>>

NextFormatGid == ApplyFormatGid \/ ReapplyFormatGid

SpecFormatGid == InitFormatGid /\ [][NextFormatGid]_vars

-----------------------------------------------------------------------------
(* mapEdgesToNodes on its own: every edge list of the bounded set *)

MaxNodes == 4

InitMapEdges ==
    /\ \E nodes \in UNION {[1..n -> {[id |-> <<"1">>], [id |-> <<"2">>], [id |-> <<"3">>]}] :
                           n \in 0..MaxNodes} :
         fn = [stage |-> "input", nodes |-> nodes,
               edges |-> [i \in 1..Len(nodes) |-> [node |-> nodes[i]]], result |-> <<>>]
    /\ entry = "formatters" /\ unit = "none" /\ pc = 1
    /\ centralClient = None /\ localClient = None /\ toolClient = [h \in Handles |-> None]
    /\ registered = {} /\ connected = FALSE /\ phase = "idle" /\ via = "none" /\ tool = "none"
    /\ input = EmptyRecord /\ hadClient = FALSE /\ sent = <<>> /\ response = None
    /\ payloadRead = FALSE /\ caught = None /\ outcome = None /\ served = None

\* mapEdgesToNodes(edges)
ApplyMapEdgesToNodes ==
    /\ fn.stage = "input"
    /\ fn' = [fn EXCEPT !.stage = "mapped", !.result = mapEdgesToNodes(fn.edges)]
    /\ UNCHANGED <<entry, unit, pc, centralClient, toolClient, registered, connected, phase, via,
                   tool, input, hadClient, sent, response, payloadRead, caught, outcome, served,
                   localClient>>

SpecMapEdges == InitMapEdges /\ [][ApplyMapEdgesToNodes]_vars

-----------------------------------------------------------------------------
(* What a request carries *)

\* the identifiers inside a search query: what follows location_id: / product_id: / variant_id:
QueryIds(query) ==
    IF ~IsSome(query) THEN {}
    ELSE LET q == query[1]
             keys == {"location_id:", "product_id:", "variant_id:"}
             ends(i) == {j \in (i + 1)..Len(q) : q[j] = " AND "} \cup {Len(q) + 1}
             stop(i) == CHOOSE j \in ends(i) : \A k \in ends(i) : j <= k
         IN {SubSeq(q, i + 1, stop(i) - 1) : i \in {k \in 1..Len(q) : q[k] \in keys}}

\* the values of the id-typed keys of a record
IdsIn(rec, keys) == {rec[k] : k \in (DOMAIN rec) \cap keys}

\* the ids of the elements of a list-valued key (Op picks the id of an element)
IdsOfList(rec, key, Op(_)) ==
    IF Has(rec, key) THEN {Op(rec[key][i]) : i \in 1..Len(rec[key])} ELSE {}

\* every resource identifier in the variables of a request of tool t
RequestIds(t, v) ==
    CASE t \in {"tools/inventory/adjust-inventory", "tools/adjustInventory"} ->
            {v.input.inventoryItemId, v.input.locationId}
      [] t \in {"tools/connectInventoryToLocation", "tools/disconnectInventoryFromLocation"} ->
            {v.inventoryItemId, v.locationId}
      [] t \in {"tools/setInventoryTracking", "tools/updateCustomer"} -> {v.input.id}
      [] t \in {"tools/getInventoryItems", "tools/getInventoryLevels",
                "tools/inventory/get-inventory-levels"} -> QueryIds(v.query)
      [] t = "tools/createOrder" ->
            IdsIn(v.input, {"customerId"}) \cup IdsOfList(v.input, "lineItems", LAMBDA it : it.variantId)
      [] t = "tools/orders/create-order" ->
            IdsIn(v.order, {"customerId"}) \cup IdsOfList(v.order, "lineItems", LAMBDA it : it.variantId)
      [] t = "tools/createFulfillment" ->
            IdsIn(v.fulfillment, {"orderId", "locationId"})
                \cup IdsOfList(v.fulfillment, "lineItems", LAMBDA it : it.id)
      [] t \in {"tools/createProduct", "tools/products/create-product"} ->
            IF IsSome(v.input.collectionsToJoin)
            THEN {v.input.collectionsToJoin[1][i] : i \in 1..Len(v.input.collectionsToJoin[1])}
            ELSE {}
      [] t = "tools/createCollection(shopifyClient)" -> IdsOfList(v.input, "productsToAdd", LAMBDA id : id)
      [] t = "tools/createMetafield" -> {v.input.ownerId}
      [] t = "tools/products/get-product-by-id" -> {v.id}
      [] OTHER -> {}

\* the identifiers the caller handed in
InputIds(in) ==
    IdsIn(in, {"inventoryItemId", "locationId", "productId", "variantId", "customerId", "orderId",
               "ownerId", "id"})
        \cup IdsOfList(in, "lineItems", LAMBDA it : IF Has(it, "variantId") THEN it.variantId ELSE it.id)
        \cup IdsOfList(in, "collectionsToJoin", LAMBDA id : id)
        \cup IdsOfList(in, "productsToAdd", LAMBDA id : id)

\* gid://shopify/<type>/ with nothing after the last slash
QualifiedFromEmpty(id) ==
    StartsWith(id, GidScheme) /\ Len(id) = Len(GidScheme) + 3 /\ id[Len(id)] = "/"

\* execute ended in a failure
ExecuteFailed == outcome # None /\ outcome[1].kind = "error"

\* the transport answered the request of a mutation tool with a non-empty userErrors list
BusinessErrors ==
    /\ phase = "done" /\ tool \in MutationTools
    /\ response # None /\ response[1].ok /\ Len(response[1].userErrors) > 0

-----------------------------------------------------------------------------
(* Properties *)

\* C1: when the answer to a mutation tool carries a non-empty userErrors list, execute ends
\* in a failure and the payload has not been read or flattened.
C1_UserErrorsShortCircuit ==
    BusinessErrors => ExecuteFailed /\ ~payloadRead

\* a mutation answered with a user error next to a non-null payload, and execute failed
C1_Witness ==
    /\ BusinessErrors /\ response[1].payload # None /\ ExecuteFailed
    /\ tool = "tools/orders/create-order"

C3_FailureShape ==
    /\ ExecuteFailed =>
          /\ outcome[1].error.isError
          /\ StartsWith(outcome[1].error.message, <<"Failed to ", Label(tool), ": ">>)
    /\ served # None /\ served[1].kind = "error" =>
          /\ served[1].error.isError
          /\ StartsWith(served[1].error.message, <<"Failed to ", Label(tool), ": ">>)

\* a value that is not an Error was thrown by the transport of a central tool, and execute failed
C3_Witness ==
    /\ ExecuteFailed /\ tool \in CentralTools
    /\ caught # None /\ ~caught[1].isError

\* C4: the message execute re-raises is the prefix of the tool followed by the caught
\* Error's message, unchanged and complete.
C4_MessageVerbatim ==
    phase = "done" /\ caught # None /\ caught[1].isError =>
        /\ ExecuteFailed
        /\ outcome[1].error.message = Failed(Label(tool), caught[1].message)

\* C5: for a non-empty userErrors list the message is "Failed to <label>" followed by every
\* entry rendered as "field: message", in list order, joined by ", " (a null field rendered
\* as the empty string or as "null").
C5_UserErrorsRendered ==
    BusinessErrors =>
        /\ ExecuteFailed
        /\ StartsWith(outcome[1].error.message, <<"Failed to ", Label(tool)>>)
        /\ \E nullText \in {<<>>, <<"null">>} :
              LET render(e) == (IF e.field = None THEN nullText ELSE e.field[1])
                                   \o <<": ">> \o e.message
                  rendered == <<": ">> \o JoinWith(Map(response[1].userErrors, render), <<", ">>)
                  message == outcome[1].error.message
              IN /\ Len(message) >= Len(rendered)
                 /\ SubSeq(message, Len(message) - Len(rendered) + 1, Len(message)) = rendered

\* C6: every resource identifier in the variables or the search query of a request is in
\* gid:// form, whether the caller handed in bare tokens or global ids (no empty one).
C6_IdsQualified ==
    <<>> \notin InputIds(input) =>
        \A i \in 1..Len(sent) :
            \A id \in RequestIds(tool, sent[i].variables) : StartsWith(id, GidScheme)

\* C7: formatGid applied twice gives what it gives applied once, and an id that starts with
\* gid:// comes back unchanged whatever resource type is asked for.
C7_FormatGidIdempotent ==
    /\ fn.stage = "twice" => fn.twice = fn.once
    /\ fn.stage \in {"once", "twice"} /\ StartsWith(fn.id, GidScheme) => fn.once = fn.id

\* formatGid was applied twice to a global id of another resource type than the one asked for
C7_Witness ==
    /\ fn.stage = "twice" /\ fn.type = "Product"
    /\ fn.id = Gid("Order", <<"7">>)

\* C8: an invocation through a registered handler whose input holds an empty-string identifier
\* is rejected before execute runs (by the registered shape or by the handler's own checks),
\* and no request carries an identifier qualified from the empty token.
C8_EmptyIdRejected ==
    phase # "idle" /\ via # "direct" =>
        /\ <<>> \in InputIds(input) =>
              /\ sent = <<>> /\ outcome = None
              /\ served # None /\ served[1].kind \in {"invalid", "error"}
        /\ \A i \in 1..Len(sent) :
              \A id \in RequestIds(tool, sent[i].variables) : ~QualifiedFromEmpty(id)

\* C9: execute of a tool whose client was not initialised ends in a failure that reports the
\* missing initialisation, and no request is issued.
C9_UninitialisedReported ==
    phase = "done" /\ outcome # None /\ ~hadClient =>
        /\ ExecuteFailed
        /\ sent = <<>>
        /\ Includes(outcome[1].error.message, NotInitializedMessage[1])

\* C10: once the server is connected, the client of every registered tool is initialised, and
\* every invocation through a registered handler found its client initialised.
C10_InitialisedBeforeConnect ==
    /\ connected => \A name \in registered : ClientOf(Implementation(entry, name)) # None
    /\ phase # "idle" /\ via # "direct" => connected /\ hadClient

\* a registered handler of index-updated.ts is executing, suspended on its request
C10_Witness ==
    /\ connected /\ entry = "index-updated" /\ phase = "awaiting"
    /\ tool = "tools/inventory/adjust-inventory"

\* C11: while the server is serving (connected), no step changes a client handle, and every
\* request an invocation issues goes out through the handle its module was initialised with,
\* to the shop's endpoint and with the access token of the start-up code.
C11_ClientHandlesFrozen ==
    [][connected =>
          /\ centralClient' = centralClient
          /\ toolClient' = toolClient
          /\ localClient' = localClient
          /\ \A i \in 1..Len(sent') :
                /\ sent'[i].client = (IF tool' \in CentralTools THEN centralClient
                                      ELSE toolClient[tool'])
                /\ sent'[i].client[1].token = "shpat"
                /\ sent'[i].client[1].url[2] = "shop.myshopify.com"]_vars

\* a served invocation of a legacy tool has been answered: its request went out through the
\* handle that index.ts passed to initialize
C11_Witness ==
    /\ connected /\ entry = "index" /\ phase = "done" /\ response # None
    /\ tool = "tools/getLocations"
    /\ Len(sent) = 1 /\ sent[1].client = toolClient["tools/getLocations"]
    /\ sent[1].client = Some(NewClient("index", "shop.myshopify.com", "2023-07", "shpat"))

C14_OmittedKeysAbsent ==
    tool \in MutationTools =>
        \A i \in 1..Len(sent) :
            LET v == sent[i].variables
                top == IF "input" \in DOMAIN v THEN v.input
                       ELSE IF "order" \in DOMAIN v THEN v.order
                       ELSE IF "fulfillment" \in DOMAIN v THEN v.fulfillment
                       ELSE v
                optional == {"reason", "description", "descriptionHtml", "handle", "seo", "image",
                             "sortOrder", "templateSuffix", "metafields", "ruleSet", "variants",
                             "images", "collectionsToJoin"}
                variants == IF "variants" \in DOMAIN top /\ top.variants # None
                            THEN top.variants[1] ELSE <<>>
                lineItems == IF "lineItems" \in DOMAIN top THEN top.lineItems ELSE <<>>
            IN /\ \A k \in (DOMAIN top) \cap optional : top[k] # None
               /\ \A j \in 1..Len(variants) : variants[j].inventoryQuantities # None
               /\ \A j \in 1..Len(lineItems) :
                     "customAttributes" \in DOMAIN lineItems[j] => lineItems[j].customAttributes # None

\* C15: for a list tool called through its registered handler, the arguments without limit
\* and the same arguments with limit: 10 are parsed to inputs that give the same outbound
\* variables, with first = 10; a request whose input has limit 10 carries exactly these.
C15_LimitDefaultsToTen ==
    (/\ via \in {"get-products", "get-customers", "get-inventory-levels", "get-inventory-items",
                 "get-locations"}
     /\ Len(sent) = 1) =>
        LET omitted == Without(input, {"limit"})
            supplied == [limit |-> 10] @@ omitted
            whenOmitted == Variables(tool, Parse(entry, via, omitted))
        IN /\ ~Has(omitted, "limit")
           /\ Accepts(entry, via, omitted) /\ Accepts(entry, via, supplied)
           /\ whenOmitted = Variables(tool, Parse(entry, via, supplied))
           /\ whenOmitted.first = 10
           /\ input.limit = 10 => sent[1].variables = whenOmitted

\* index.ts has dispatched get-inventory-items with a productId filter; the request asks for
\* the first 10 items
C15_Witness ==
    /\ entry = "index" /\ via = "get-inventory-items" /\ phase = "awaiting"
    /\ Has(input, "productId") /\ input.limit = 10
    /\ Len(sent) = 1 /\ sent[1].variables.first = 10

\* C16: create-order called through the registered handler with lineItems given as the JSON
\* text of one or more well-formed items ends with one request whose line items are the
\* items of the text, a bare object counting as a one-element sequence.
C16_LineItemsTextParsed ==
    (/\ via = "create-order" /\ phase # "idle" /\ Has(input, "lineItemsText")
     /\ jsonParse(input.lineItemsText).thrown = None) =>
        LET parsed == jsonParse(input.lineItemsText).value[1]
            items == IF parsed.isArray THEN parsed.value ELSE <<parsed.value>>
        IN Len(items) > 0 =>
              /\ Len(sent) = 1
              /\ Len(sent[1].variables.input.lineItems) = Len(items)
              /\ \A i \in 1..Len(items) :
                    sent[1].variables.input.lineItems[i].quantity = items[i].quantity

C18_AdjustNeverConnects ==
    (/\ fn.stage = "inventory" /\ fn.call.phase # "idle"
     /\ fn.call.tool \in {"tools/inventory/adjust-inventory", "tools/adjustInventory"}) =>
        /\ Len(fn.call.sent) = 1
        /\ fn.call.mutation = "inventoryAdjustQuantity"
        /\ fn.call.phase = "done" /\ fn.call.before = "disconnected" =>
              /\ fn.call.outcome # None /\ fn.call.outcome[1].kind = "error"
              /\ fn.pair = "disconnected"

\* adjust-inventory of the central module met the pair disconnected
C18_Witness ==
    /\ fn.stage = "inventory" /\ fn.call.phase = "done"
    /\ fn.call.tool = "tools/inventory/adjust-inventory"
    /\ fn.call.before = "disconnected" /\ fn.pair = "disconnected"
    /\ fn.call.input.availableDelta = 2
    /\ fn.call.outcome[1].kind = "error"

\* C19: adjust-inventory forwards availableDelta, whatever its sign, unchanged next to the
\* qualified ids; an invocation through the registered handler with non-empty ids is not
\* rejected for its delta; the available value of a result is the one the response carries.
C19_DeltaForwarded ==
    tool \in {"tools/inventory/adjust-inventory", "tools/adjustInventory"} =>
        /\ \A i \in 1..Len(sent) :
              LET v == sent[i].variables.input IN
              /\ v.availableDelta = input.availableDelta
              /\ ~StartsWith(input.inventoryItemId, GidScheme) =>
                    v.inventoryItemId = GidScheme \o <<"shopify/", "InventoryItem", "/">>
                                            \o input.inventoryItemId
              /\ ~StartsWith(input.locationId, GidScheme) =>
                    v.locationId = GidScheme \o <<"shopify/", "Location", "/">> \o input.locationId
        /\ (via = "adjust-inventory" /\ phase # "idle"
                /\ input.inventoryItemId # <<>> /\ input.locationId # <<>>) => Len(sent) = 1
        /\ outcome # None /\ outcome[1].kind = "result" =>
              LET level == response[1].payload[1]
                  reported == IF tool = "tools/adjustInventory" THEN {level.available}
                              ELSE {level.quantities[j].quantity : j \in
                                       {k \in 1..Len(level.quantities) :
                                           level.quantities[k].name = "available"}}
              IN outcome[1].value.inventoryLevel.available \in reported

\* index-updated.ts served adjust-inventory {inventoryItemId: "1", locationId: "1",
\* availableDelta: -3}; the result reports the available quantity of the response
C19_Witness ==
    /\ entry = "index-updated" /\ via = "adjust-inventory" /\ phase = "done"
    /\ input.inventoryItemId = <<"1">> /\ input.locationId = <<"1">> /\ input.availableDelta = -3
    /\ sent[1].variables.input.availableDelta = -3
    /\ sent[1].variables.input.inventoryItemId = Gid("InventoryItem", <<"1">>)
    /\ sent[1].variables.input.locationId = Gid("Location", <<"1">>)
    /\ outcome # None /\ outcome[1].kind = "result" /\ outcome[1].value.inventoryLevel.available = 5

\* C20: the query string a list/search tool sends has one clause for each filter the caller
\* supplied, the clauses joined by " AND ", and is left out when no filter was supplied.
C20_OneClausePerFilter ==
    tool \in QueryTools \ {"tools/products/get-product-by-id"} =>
        \A i \in 1..Len(sent) :
            LET q == sent[i].variables.query
                supplied == {k \in (DOMAIN input) \cap {"query", "searchQuery", "searchTitle",
                                                        "locationId", "productId", "variantId",
                                                        "active"} :
                                IF k = "active" THEN TRUE ELSE input[k] # <<>>}
                marker(k) == CASE k = "locationId" -> "location_id:"
                               [] k = "productId" -> "product_id:"
                               [] k = "variantId" -> "variant_id:"
                               [] k = "active" -> "is_active:"
                               [] k = "searchTitle" -> "title:*"
                               [] OTHER -> input[k][1]
            IN IF supplied = {} THEN q = None
               ELSE /\ q # None
                    /\ \A k \in supplied : Includes(q[1], marker(k))
                    /\ Cardinality({j \in 1..Len(q[1]) : q[1][j] = " AND "})
                           = Cardinality(supplied) - 1

\* C21: in every result a tool returns, each list-valued field (variants, images, metafields,
\* lineItems, addresses, publications, inventoryLevels, collections) is a plain sequence of
\* nodes, never a connection object {edges: [{node: ...}]}.
C21_NoRawConnection ==
    (outcome # None /\ outcome[1].kind = "result") =>
        LET value == outcome[1].value
            listRooted == {"tools/products/get-products", "tools/customers/get-customers",
                           "tools/inventory/get-inventory-levels", "tools/getInventoryLevels",
                           "tools/getInventoryItems", "tools/getLocations"}
            lists == {"variants", "images", "metafields", "lineItems", "addresses",
                      "publications", "inventoryLevels", "collections"}
            plain(o) == \A k \in (DOMAIN o) \cap lists :
                            ~(Len(o[k]) = 1 /\ DOMAIN o[k][1] = {"edges"})
        IN IF tool \in listRooted
           THEN \A k \in DOMAIN value : \A i \in 1..Len(value[k]) : plain(value[k][i])
           ELSE IF tool = "tools/createCollection" THEN plain(value)
           ELSE IF tool = "tools/createCustomer"
           THEN value.customer # None => plain(value.customer[1])
           ELSE \A k \in DOMAIN value : plain(value[k])

\* C22: for each tool the keys of a successful result do not depend on which optional input
\* fields the caller supplied: the same answer of the API, received by a call of the same tool
\* with any other input, gives a result with the same keys.
C22_ResultKeysFixed ==
    (outcome # None /\ outcome[1].kind = "result" /\ response # None) =>
        LET value == outcome[1].value
            unnested == {"tools/products/get-products", "tools/customers/get-customers",
                         "tools/inventory/get-inventory-levels", "tools/getInventoryLevels",
                         "tools/getInventoryItems", "tools/getLocations",
                         "tools/createCollection", "tools/createCustomer"}
            sameKeys(other) ==
                /\ DOMAIN other = DOMAIN value
                /\ tool \notin unnested =>
                       \A k \in DOMAIN value : DOMAIN other[k] = DOMAIN value[k]
        IN \A in \in Inputs(tool) :
               LET end == Continue(tool, in, response[1])
               IN (end.outcome # None /\ end.outcome[1].kind = "result") =>
                      sameKeys(end.outcome[1].value)

\* C23: mapEdgesToNodes preserves content and order: the edge list made of a node sequence X
\* unwraps to X itself (same length, same elements at the same places), and the empty edge list
\* unwraps to the empty sequence.
C23_MapEdgesPreserves ==
    fn.stage = "mapped" =>
        /\ Len(fn.result) = Len(fn.edges)
        /\ \A i \in 1..Len(fn.edges) : fn.result[i] = fn.nodes[i]
        /\ fn.result = fn.nodes
        /\ fn.edges = <<>> => fn.result = <<>>

C23_Witness ==
    /\ fn.stage = "mapped" /\ Len(fn.nodes) >= 3
    /\ fn.nodes[1] # fn.nodes[2] /\ fn.nodes[2] # fn.nodes[3]
    /\ fn.result = fn.nodes

\* C24: when the object a tool received carries no metafields connection, unwrapping gives the
\* empty sequence and never fails: the tool ends with a result whose metafields is the empty list.
C24_AbsentConnectionIsEmptyList ==
    LET unwrapping == {"tools/orders/create-order", "tools/createOrder",
                       "tools/customers/create-customer", "tools/updateCustomer",
                       "tools/products/create-product", "tools/createProduct",
                       "tools/products/get-product-by-id", "tools/createCollection(shopifyClient)"}
    IN (/\ tool \in unwrapping /\ phase = "done" /\ response # None
        /\ response[1].ok /\ response[1].userErrors = <<>> /\ response[1].payload # None
        /\ response[1].payload[1].metafields = None)
       => /\ outcome # None /\ outcome[1].kind = "result"
          /\ \A k \in DOMAIN outcome[1].value : outcome[1].value[k].metafields = <<>>

\* C25: once the server is connected there is exactly one client instance in the process, and
\* every request a registered tool has sent went through that instance.
C25_SingleClientInstance ==
    connected =>
        LET instances == ({centralClient, localClient} \cup {toolClient[h] : h \in Handles}) \ {None}
        IN /\ Cardinality(instances) = 1
           /\ \A i \in 1..Len(sent) : sent[i].client \in instances

\* C26: get-customers called through the server: a non-empty searchQuery among the caller's
\* arguments is the query variable of the request sent, and an absent or empty one sends no query.
C26_SearchQueryForwarded ==
    (via = "get-customers" /\ fn.stage = "called" /\ Len(sent) > 0) =>
        sent[1].variables.query = IF Truthy(fn.arguments, "searchQuery")
                                  THEN Some(fn.arguments.searchQuery) ELSE None

\* C27: an invocation whose request was answered ends in exactly one outcome, a result or a
\* failure; an error caught inside execute is raised again; and a mutation answered with empty
\* userErrors and a null payload does not end in a result.
C27_ResultOrFailure ==
    (phase = "done" /\ response # None) =>
        /\ outcome # None /\ outcome[1].kind \in {"result", "error"}
        /\ caught # None => outcome[1].kind = "error"
        /\ (tool \in MutationTools /\ response[1].ok /\ response[1].userErrors = <<>>
                /\ response[1].payload = None) => outcome[1].kind = "error"

\* C28: in the tools built on the shared error helpers (adjust-inventory, create-order,
\* create-product, create-customer), a non-empty userErrors list makes execute raise a message
\* in which the prefix "Failed to <operation>: " appears twice, ahead of the rendered userErrors.
C28_PrefixTwice ==
    (/\ tool \in CentralTools \cap MutationTools /\ phase = "done" /\ response # None
     /\ response[1].ok /\ Len(response[1].userErrors) > 0)
    => /\ outcome # None /\ outcome[1].kind = "error" /\ outcome[1].error.isError
       /\ LET message == outcome[1].error.message
              prefix == <<"Failed to ", Label(tool), ": ">>
          IN /\ Len(message) > 6
             /\ SubSeq(message, 1, 3) = prefix
             /\ SubSeq(message, 4, 6) = prefix
             /\ Cardinality({i \in 1..Len(message) : message[i] = "Failed to "}) = 2

C28_Witness ==
    /\ tool = "tools/inventory/adjust-inventory" /\ phase = "done" /\ response # None
    /\ response[1].ok /\ Len(response[1].userErrors) = 2
    /\ outcome # None /\ outcome[1].kind = "error"
    /\ SubSeq(outcome[1].error.message, 1, 6) =
           <<"Failed to ", "adjust inventory", ": ", "Failed to ", "adjust inventory", ": ">>

\* C29: get-locations builds its filter from active whenever it is supplied, false included:
\* active false sends the query is_active:false, active true sends is_active:true, and only an
\* omitted active sends no query.
C29_ActiveFalseFiltered ==
    (tool = "tools/getLocations" /\ Len(sent) > 0) =>
        /\ (Has(input, "active") /\ input.active = FALSE)
               => sent[1].variables.query = Some(<<"is_active:", "false">>)
        /\ (Has(input, "active") /\ input.active = TRUE)
               => sent[1].variables.query = Some(<<"is_active:", "true">>)
        /\ sent[1].variables.query = None <=> ~Has(input, "active")

C29_Witness ==
    /\ tool = "tools/getLocations" /\ Len(sent) > 0
    /\ Has(input, "active") /\ input.active = FALSE
    /\ sent[1].variables.query = Some(<<"is_active:", "false">>)

\* C30: create-order of tools/orders: each line item sent carries exactly variantId (qualified
\* as ProductVariant), quantity and customAttributes, so a price supplied on a line item is not
\* in the request; customerId is in the request, qualified as Customer, only when supplied.
C30_LineItemKeys ==
    (tool = "tools/orders/create-order" /\ Len(sent) > 0) =>
        LET order == sent[1].variables.order
        IN /\ Len(order.lineItems) = Len(input.lineItems)
           /\ \A i \in 1..Len(order.lineItems) :
                  /\ DOMAIN order.lineItems[i] = {"variantId", "quantity", "customAttributes"}
                  /\ order.lineItems[i].variantId =
                         formatGid("ProductVariant", input.lineItems[i].variantId)
                  /\ StartsWith(order.lineItems[i].variantId, GidScheme)
                  /\ order.lineItems[i].quantity = input.lineItems[i].quantity
           /\ Has(order, "customerId") <=> Truthy(input, "customerId")
           /\ Has(order, "customerId") =>
                  /\ order.customerId = formatGid("Customer", input.customerId)
                  /\ StartsWith(order.customerId, GidScheme)

C30_Witness ==
    /\ tool = "tools/orders/create-order" /\ Len(sent) > 0
    /\ Len(input.lineItems) = 1 /\ Has(input.lineItems[1], "price")
    /\ ~Has(sent[1].variables.order.lineItems[1], "price")
    /\ Has(input, "customerId") /\ Has(sent[1].variables.order, "customerId")

====
